---- MODULE Spec2Model ----
(***************************************************************************)
(* Model of the two request-transforming reverse proxies                   *)
(*   anthropic_proxy.py   (AnthropicRequestHandler, "cache-TTL-aware")     *)
(*   openrouter_proxy.py  (OpenAIRequestHandler,    "cache-flag-only")     *)
(*                                                                         *)
(* Python values are represented as follows.                               *)
(*   dict            a function from its keys (strings) to its values      *)
(*   list            a sequence                                            *)
(*   message         [t |-> "dict", d |-> dict]  or  [t |-> "scalar"]      *)
(*   content         [t |-> "str", s |-> string]                           *)
(*                   [t |-> "list", items |-> sequence of blocks]          *)
(*                   [t |-> "null"],  [t |-> "num", n |-> number]          *)
(*   content block   [t |-> "dict", d |-> dict]  or  [t |-> "str", s |-> _]*)
(*   exception       the name of its class; IsA gives the classes it is an *)
(*                   instance of                                           *)
(***************************************************************************)
EXTENDS Integers, Sequences, FiniteSets, TLC

VARIABLES
    session,   \* self.session of each handler: "none", "open" or "closed"
    call,      \* the request in flight: route, handler and generator state
    pstage,    \* position of the pure-function harness
    pin,       \* its inputs
    pout,      \* its outputs
    calls,     \* the concurrent calls of the pool model: position, handler, client held
    clients,   \* every ClientSession each handler constructed: "open" or "closed"
    closing    \* the client a running close() is closing, 0 when none runs

poolVars == <<calls, clients, closing>>

vars == <<session, call, pstage, pin, pout, calls, clients, closing>>

Variants == {"anthropic", "openrouter"}

(***************************************************************************)
(* Bounds                                                                  *)
(***************************************************************************)
MaxMsgs == 2
MaxBlocks == 2
MaxChunks == 2
NCalls == 3       \* calls in flight on the handlers at the same time
MaxClients == 2   \* ClientSession objects one handler constructs
MaxOps == 4       \* acquire/close operations run in sequence on one handler

\* the specifications that follow one call, or one function, have no pool
NoPool ==
    /\ calls = << >>
    /\ clients = [v \in Variants |-> << >>]
    /\ closing = [v \in Variants |-> 0]

(***************************************************************************)
(* dict helpers                                                            *)
(***************************************************************************)
Has(d, k) == k \in DOMAIN d

Get(d, k, default) == IF k \in DOMAIN d THEN d[k] ELSE default

Without(d, k) == [x \in (DOMAIN d) \ {k} |-> d[x]]

Put(d, k, v) == [x \in (DOMAIN d) \cup {k} |-> IF x = k THEN v ELSE d[x]]

EmptyDict == [x \in {} |-> 0]

EmptyList == [t |-> "list", items |-> <<>>]

DictBlock(d) == [t |-> "dict", d |-> d]

Last(s) == s[Len(s)]

(***************************************************************************)
(* Cache directive of each variant                                         *)
(***************************************************************************)
\* mutant: the TTL-aware variant attaches the bare directive
PolicyDirectiveNoTtl(variant, ttl) == [type |-> "ephemeral"]

\* {"type": "ephemeral", "ttl": self.cache_control_ttl}  /  {"type": "ephemeral"}
PolicyDirective(variant, ttl) ==
    IF variant = "anthropic"
    THEN [type |-> "ephemeral", ttl |-> ttl]
    ELSE [type |-> "ephemeral"]

\* mutant: the new text block is created without the directive
TextBlockBare(text, directive) ==
    DictBlock([type |-> "text", text |-> text])

\* {"type": "text", "text": text, "cache_control": directive}
TextBlock(text, directive) ==
    DictBlock([type |-> "text", text |-> text, cache_control |-> directive])

(***************************************************************************)
(* _standardize_cache_control / _add_cache_control_to_messages             *)
(***************************************************************************)
\* mutant: the block is copied with its cache_control
CleanBlockKeepsDirective(b) == b

\* cleaned_block = {k: v for k, v in content_block.items() if k != 'cache_control'}
CleanBlock(b) ==
    IF b.t = "dict" THEN DictBlock(Without(b.d, "cache_control")) ELSE b

\* mutant: the cleaned message is built from the content alone
CleanMessageContentOnly(m) ==
    LET content == Get(m.d, "content", EmptyList)
    IN  IF content.t = "list"
        THEN [t |-> "dict",
              d |-> [k \in {"content"} |->
                        [t |-> "list",
                         items |-> [i \in 1..Len(content.items) |->
                                        CleanBlock(content.items[i])]]]]
        ELSE [t |-> "dict", d |-> [k \in {"content"} |-> content]]

\* the body of the first loop, for one message
CleanMessage(m) ==
    LET cleaned == Without(m.d, "cache_control")
        content == Get(m.d, "content", EmptyList)
    IN  IF content.t = "list"
        THEN [t |-> "dict",
              d |-> Put(cleaned, "content",
                        [t |-> "list",
                         items |-> [i \in 1..Len(content.items) |->
                                        CleanBlock(content.items[i])]])]
        ELSE [t |-> "dict", d |-> cleaned]

\* str(content[-1]) if content[-1] else ""   for a block that is not a dict
BlockText(b) == IF b.t = "str" THEN b.s ELSE ""

\* mutant: a new text block is appended also when the last block is a dict
TagLastMessageAlwaysAppends(m, directive) ==
    LET content == Get(m.d, "content", EmptyList)
    IN  IF content.t = "list"
        THEN IF content.items # <<>>
             THEN [m EXCEPT !.d = Put(m.d, "content",
                     [t |-> "list",
                      items |-> Append(content.items,
                                    TextBlock(BlockText(Last(content.items)),
                                              directive))])]
             ELSE m
        ELSE IF content.t = "str"
        THEN [m EXCEPT !.d = Put(m.d, "content",
                [t |-> "list", items |-> <<TextBlock(content.s, directive)>>])]
        ELSE [m EXCEPT !.d = Put(m.d, "content",
                [t |-> "list", items |-> <<TextBlock("", directive)>>])]

\* the "add to the last message" part, applied to the cleaned last message
TagLastMessage(m, directive) ==
    LET content == Get(m.d, "content", EmptyList)
    IN  IF content.t = "list"
        THEN IF content.items # <<>>
             THEN IF Last(content.items).t = "dict"
                  THEN [m EXCEPT !.d = Put(m.d, "content",
                          [t |-> "list",
                           items |-> [content.items EXCEPT ![Len(content.items)] =
                                         DictBlock(Put(@.d, "cache_control", directive))]])]
                  ELSE [m EXCEPT !.d = Put(m.d, "content",
                          [t |-> "list",
                           items |-> Append(content.items,
                                         TextBlock(BlockText(Last(content.items)),
                                                   directive))])]
             \* content = [{...}] rebinds the local name only: the message
             \* keeps its empty list
             ELSE m
        ELSE IF content.t = "str"
        THEN [m EXCEPT !.d = Put(m.d, "content",
                [t |-> "list", items |-> <<TextBlock(content.s, directive)>>])]
        ELSE [m EXCEPT !.d = Put(m.d, "content",
                [t |-> "list", items |-> <<TextBlock("", directive)>>])]

Normalize(variant, ttl, messages) ==
    IF messages = <<>>
    THEN messages
    ELSE LET cleaned == [i \in 1..Len(messages) |-> CleanMessage(messages[i])]
             n == Len(cleaned)
         IN  [cleaned EXCEPT ![n] =
                 TagLastMessage(cleaned[n], PolicyDirective(variant, ttl))]

(***************************************************************************)
(* Inputs of the normalization harness                                     *)
(***************************************************************************)
CallerDirective == [type |-> "ephemeral", ttl |-> "5m"]

Ttls == {"5m", "1h"}

Policies == {<<"anthropic", "5m">>, <<"anthropic", "1h">>, <<"openrouter", "1h">>}

SeqsUpTo(S, n) == UNION {[1..k -> S] : k \in 0..n}

InBlocks ==
    { DictBlock([type |-> "text", text |-> "a"]),
      DictBlock([type |-> "text", text |-> "a", cache_control |-> CallerDirective]),
      [t |-> "str", s |-> "x"],
      [t |-> "str", s |-> ""] }

InContents ==
    { [t |-> "list", items |-> s] : s \in SeqsUpTo(InBlocks, MaxBlocks) }
    \cup { [t |-> "str", s |-> "hi"], [t |-> "null"], [t |-> "num", n |-> 5] }

InMessages ==
    LET base == { [role |-> "user", content |-> c] : c \in InContents }
                \cup { [role |-> "user"] }
    IN  { [t |-> "dict", d |-> d] : d \in base }
        \cup { [t |-> "dict", d |-> Put(d, "cache_control", CallerDirective)] :
                 d \in base }

(***************************************************************************)
(* Counting cache directives in a message sequence                         *)
(***************************************************************************)
BlockHasDirective(b) == b.t = "dict" /\ Has(b.d, "cache_control")

\* positions <<i, 0>> (message level) and <<i, j>> (block j of message i)
DirectivePositions(messages) ==
    { <<i, 0>> : i \in {k \in 1..Len(messages) : Has(messages[k].d, "cache_control")} }
    \cup
    UNION { { <<i, j>> : j \in
                { k \in 1..(IF Has(messages[i].d, "content")
                               /\ messages[i].d["content"].t = "list"
                            THEN Len(messages[i].d["content"].items) ELSE 0) :
                    BlockHasDirective(messages[i].d["content"].items[k]) } }
            : i \in 1..Len(messages) }

(***************************************************************************)
(* Normalization on a heap: the same statements, with object identity.     *)
(* Every list and dict is an object at an address; a dict field or list    *)
(* item that holds a list or dict holds a reference to it.  Addresses are  *)
(* <<kind, generation, message index, block index>>; generation "in" is    *)
(* the caller's structure, "out" what the call allocates.                  *)
(***************************************************************************)
Ref(a) == [t |-> "ref", a |-> a]

Addr(kind, gen, i, j) == <<kind, gen, i, j>>

InRoot == Addr("list", "in", 0, 0)

OutRoot == Addr("list", "out", 0, 0)

Store(h, a, obj) == [x \in (DOMAIN h) \cup {a} |-> IF x = a THEN obj ELSE h[x]]

SetField(h, a, k, v) == Store(h, a, [h[a] EXCEPT !.d = Put(@, k, v)])

DelField(h, a, k) == Store(h, a, [h[a] EXCEPT !.d = Without(@, k)])

\* the caller's message list, as the JSON parser allocates it
HeapOf(messages) ==
    LET n == Len(messages)
        isList(i) == Has(messages[i].d, "content")
                     /\ messages[i].d["content"].t = "list"
        items(i) == messages[i].d["content"].items
        addrs == {InRoot}
                 \cup { Addr("msg", "in", i, 0) : i \in 1..n }
                 \cup { Addr("content", "in", i, 0) : i \in {k \in 1..n : isList(k)} }
                 \cup UNION { { Addr("block", "in", i, j) :
                                  j \in {k \in 1..Len(items(i)) : items(i)[k].t = "dict"} }
                              : i \in {k \in 1..n : isList(k)} }
    IN  [a \in addrs |->
            CASE a[1] = "list" ->
                    [t |-> "list",
                     items |-> [i \in 1..n |-> Ref(Addr("msg", "in", i, 0))]]
              [] a[1] = "msg" ->
                    [t |-> "dict",
                     d |-> [k \in DOMAIN messages[a[3]].d |->
                              IF k = "content" /\ isList(a[3])
                              THEN Ref(Addr("content", "in", a[3], 0))
                              ELSE messages[a[3]].d[k]]]
              [] a[1] = "content" ->
                    [t |-> "list",
                     items |-> [j \in 1..Len(items(a[3])) |->
                                  IF items(a[3])[j].t = "dict"
                                  THEN Ref(Addr("block", "in", a[3], j))
                                  ELSE items(a[3])[j]]]
              [] OTHER -> items(a[3])[a[4]]]

\* the value a reference stands for
ValueOfBlock(h, item) == IF item.t = "ref" THEN h[item.a] ELSE item

ValueOfContent(h, c) ==
    IF c.t = "ref"
    THEN [t |-> "list",
          items |-> [j \in 1..Len(h[c.a].items) |-> ValueOfBlock(h, h[c.a].items[j])]]
    ELSE c

ValueOfMessage(h, a) ==
    [t |-> "dict",
     d |-> [k \in DOMAIN h[a].d |->
              IF k = "content" THEN ValueOfContent(h, h[a].d[k]) ELSE h[a].d[k]]]

ValueOfList(h, root) ==
    [i \in 1..Len(h[root].items) |-> ValueOfMessage(h, h[root].items[i].a)]

\* mutant: cleaned_message = message, the caller's own dict
CopyMessageAliases(h, src, i) == [heap |-> h, addr |-> src]

\* cleaned_message = message.copy(): a new dict with the same field values
CopyMessage(h, src, i) ==
    [heap |-> Store(h, Addr("msg", "out", i, 0), h[src]),
     addr |-> Addr("msg", "out", i, 0)]

\* cleaned_content: a new list, a new dict for each dict block
CleanContentOnHeap(h, i, listAddr) ==
    LET items == h[listAddr].items
        dicts == {j \in 1..Len(items) : items[j].t = "ref"}
        newList == Addr("content", "out", i, 0)
    IN  [a \in (DOMAIN h) \cup {newList}
                \cup { Addr("block", "out", i, j) : j \in dicts } |->
            IF a = newList
            THEN [t |-> "list",
                  items |-> [j \in 1..Len(items) |->
                               IF j \in dicts
                               THEN Ref(Addr("block", "out", i, j))
                               ELSE items[j]]]
            ELSE IF a[1] = "block" /\ a[2] = "out" /\ a[3] = i /\ a[4] \in dicts
            THEN [t |-> "dict",
                  d |-> Without(h[items[a[4]].a].d, "cache_control")]
            ELSE h[a]]

\* the body of the first loop for message i
CleanMessageOnHeap(h, i) ==
    LET src == h[InRoot].items[i].a
        copy == CopyMessage(h, src, i)
        dst == copy.addr
        h1 == copy.heap
        h2 == IF Has(h1[dst].d, "cache_control")
              THEN DelField(h1, dst, "cache_control") ELSE h1
        h3 == IF ~Has(h2[src].d, "content")
              THEN SetField(Store(h2, Addr("content", "out", i, 0),
                                  [t |-> "list", items |-> << >>]),
                            dst, "content", Ref(Addr("content", "out", i, 0)))
              ELSE IF h2[src].d["content"].t = "ref"
              THEN SetField(CleanContentOnHeap(h2, i, h2[src].d["content"].a),
                            dst, "content", Ref(Addr("content", "out", i, 0)))
              ELSE h2
    IN  Store(h3, OutRoot, [h3[OutRoot] EXCEPT !.items = Append(@, Ref(dst))])

RECURSIVE CleanAllOnHeap(_, _, _)
CleanAllOnHeap(h, i, n) ==
    IF i > n THEN h ELSE CleanAllOnHeap(CleanMessageOnHeap(h, i), i + 1, n)

\* the statements that tag standardized_messages[-1]
TagLastOnHeap(h, n, directive) ==
    LET last == Last(h[OutRoot].items).a
        content == Get(h[last].d, "content", [t |-> "absent"])
        newList == Addr("content", "out", n, 1)
        wrap(text) ==
            SetField(Store(Store(h, Addr("block", "out", n, 1),
                                 TextBlock(text, directive)),
                           newList,
                           [t |-> "list",
                            items |-> << Ref(Addr("block", "out", n, 1)) >>]),
                     last, "content", Ref(newList))
    IN  IF content.t = "absent"
        THEN h
        ELSE IF content.t = "ref"
        THEN LET items == h[content.a].items
             IN  IF items = << >>
                 THEN h
                 ELSE IF Last(items).t = "ref"
                 THEN SetField(h, Last(items).a, "cache_control", directive)
                 ELSE LET new == Addr("block", "out", n, Len(items) + 1)
                      IN  Store(Store(h, new,
                                      TextBlock(BlockText(Last(items)), directive)),
                                content.a,
                                [h[content.a] EXCEPT !.items = Append(@, Ref(new))])
        ELSE IF content.t = "str"
        THEN wrap(content.s)
        ELSE wrap("")

NormalizeOnHeap(h, variant, ttl) ==
    IF h[InRoot].items = << >>
    THEN [heap |-> h, root |-> InRoot]
    ELSE LET n == Len(h[InRoot].items)
             h0 == Store(h, OutRoot, [t |-> "list", items |-> << >>])
         IN  [heap |-> TagLastOnHeap(CleanAllOnHeap(h0, 1, n), n,
                                     PolicyDirective(variant, ttl)),
              root |-> OutRoot]

(***************************************************************************)
(* Normalization harness: draw a message sequence, normalize it            *)
(***************************************************************************)
InitNorm ==
    /\ session = [v \in Variants |-> "none"]
    /\ call = [pc |-> "off"]
    /\ pstage = "in"
    /\ pin \in { [messages |-> ms, policy |-> p] :
                   ms \in SeqsUpTo(InMessages, MaxMsgs), p \in Policies }
    /\ pout = <<>>
    /\ NoPool

ApplyNormalize ==
    /\ pstage = "in"
    /\ pstage' = "out"
    /\ pout' = Normalize(pin.policy[1], pin.policy[2], pin.messages)
    /\ UNCHANGED <<session, call, pin, poolVars>>

\* the output of the first call is normalized again, with the same policy
NormalizeAgain ==
    /\ pstage = "out"
    /\ pstage' = "twice"
    /\ pout' = [once |-> pout,
                twice |-> Normalize(pin.policy[1], pin.policy[2], pout)]
    /\ UNCHANGED <<session, call, pin, poolVars>>

\* the call on the caller's own objects
ApplyNormalizeOnHeap ==
    /\ pstage = "in"
    /\ pstage' = "heap"
    /\ pout' = LET before == HeapOf(pin.messages)
                   r == NormalizeOnHeap(before, pin.policy[1], pin.policy[2])
               IN  [before |-> before, after |-> r.heap, root |-> r.root]
    /\ UNCHANGED <<session, call, pin, poolVars>>


\* C4: the output of normalization holds at most one cache directive, and a
\* directive that exists sits on the last content block of the last message;
\* no message-level position and no earlier block or message carries one.
NormSingleDirectiveAtTail ==
    pstage = "out" =>
        LET pos == DirectivePositions(pout)
        IN  /\ Cardinality(pos) <= 1
            /\ \A p \in pos :
                  /\ p[1] = Len(pout)
                  /\ p[2] >= 1
                  /\ p[2] = Len(pout[p[1]].d["content"].items)

\* an input with stray directives at message level and on a block of an
\* earlier message has been normalized to a single directive
NormSingleDirectiveWitness ==
    /\ pstage = "out"
    /\ Len(pin.messages) = 2
    /\ Cardinality(DirectivePositions(pin.messages)) >= 3
    /\ <<1, 1>> \in DirectivePositions(pin.messages)
    /\ <<2, 0>> \in DirectivePositions(pin.messages)
    /\ Cardinality(DirectivePositions(pout)) = 1

(***************************************************************************)
(* _prepare_headers                                                        *)
(***************************************************************************)
\* f'Bearer {key}'
Bearer(key) == <<"Bearer", key>>

\* mutant: the request id of the caller is passed through as well
OptionalHeadersWithRequestId == {"anthropic-beta", "user-agent", "x-request-id"}

\* optional_headers = ['anthropic-beta', 'user-agent']
OptionalHeaders == {"anthropic-beta", "user-agent"}

\* mutant: the caller's x-api-key wins over the configured key
PrepareHeadersAnthropicCallerKey(apiKey, original) ==
    LET fixed == [h \in {"x-api-key", "anthropic-version", "content-type"} |->
                    CASE h = "x-api-key" -> Get(original, "x-api-key", apiKey)
                      [] h = "anthropic-version" ->
                            Get(original, "anthropic-version", "2023-06-01")
                      [] OTHER -> "application/json"]
        copied == OptionalHeaders \cap DOMAIN original
    IN  [h \in (DOMAIN fixed) \cup copied |->
            IF h \in copied THEN original[h] ELSE fixed[h]]

PrepareHeadersAnthropic(apiKey, original) ==
    LET fixed == [h \in {"x-api-key", "anthropic-version", "content-type"} |->
                    CASE h = "x-api-key" -> apiKey
                      [] h = "anthropic-version" ->
                            Get(original, "anthropic-version", "2023-06-01")
                      [] OTHER -> "application/json"]
        copied == OptionalHeaders \cap DOMAIN original
    IN  [h \in (DOMAIN fixed) \cup copied |->
            IF h \in copied THEN original[h] ELSE fixed[h]]

\* the X-Title value stands for the site title the code sends
PrepareHeadersOpenRouter(apiKey, original) ==
    [h \in {"Authorization", "Content-Type", "HTTP-Referer", "X-Title"} |->
        CASE h = "Authorization" -> Bearer(apiKey)
          [] h = "Content-Type" -> "application/json"
          [] h = "HTTP-Referer" -> "https://api.pezayo.com"
          [] OTHER -> "One hub"]

PrepareHeaders(variant, apiKey, original) ==
    IF variant = "anthropic"
    THEN PrepareHeadersAnthropic(apiKey, original)
    ELSE PrepareHeadersOpenRouter(apiKey, original)

\* the header of each variant that carries the upstream credential
CredentialHeader(variant) ==
    IF variant = "anthropic" THEN "x-api-key" ELSE "Authorization"

CredentialValue(variant, apiKey) ==
    IF variant = "anthropic" THEN apiKey ELSE Bearer(apiKey)

(***************************************************************************)
(* Inputs of the header harness: caller headers as the route passes them   *)
(* (dict(request.headers): lower-case names)                               *)
(***************************************************************************)
CallerCredentialHeaders == {"x-api-key", "authorization"}

Opt(k, v, absent) == IF v = absent THEN EmptyDict ELSE (k :> v)

InHeaders ==
    { Opt("x-api-key", a, "") @@ Opt("authorization", b, <<>>)
        @@ Opt("anthropic-version", c, "") @@ Opt("anthropic-beta", d, "")
        @@ Opt("user-agent", e, "") @@ Opt("x-request-id", f, "") :
        a \in {"", "ck-1", "ck-2"},
        b \in {<<>>, Bearer("ck-1"), Bearer("ck-2")},
        c \in {"", "2023-01-01"},
        d \in {"", "beta-1"},
        e \in {"", "curl"},
        f \in {"", "r-1"} }

ServerKeys == {"sk-server-1", "sk-server-2"}

NonCredential(h) == [k \in (DOMAIN h) \ CallerCredentialHeaders |-> h[k]]

InitHdr ==
    /\ session = [v \in Variants |-> "none"]
    /\ call = [pc |-> "off"]
    /\ pstage = "in"
    /\ pin \in { [h1 |-> h1, h2 |-> h2, variant |-> v, key |-> k] :
                   h1 \in InHeaders, h2 \in InHeaders,
                   v \in Variants, k \in ServerKeys }
    /\ pout = <<>>
    /\ NoPool

ApplyPrepareHeaders ==
    /\ pstage = "in"
    /\ pstage' = "out"
    /\ pout' = [o1 |-> PrepareHeaders(pin.variant, pin.key, pin.h1),
                o2 |-> PrepareHeaders(pin.variant, pin.key, pin.h2)]
    /\ UNCHANGED <<session, call, pin, poolVars>>

NextHdr == ApplyPrepareHeaders

SpecHdr == InitHdr /\ [][NextHdr]_vars

\* C3: two calls that differ only in the caller's credential headers send
\* identical headers upstream, the upstream credential header carries the
\* server-held key, and no caller credential value appears upstream.
HdrCredentialNonInterference ==
    pstage = "out" =>
        /\ (NonCredential(pin.h1) = NonCredential(pin.h2) => pout.o1 = pout.o2)
        /\ pout.o1[CredentialHeader(pin.variant)]
              = CredentialValue(pin.variant, pin.key)
        /\ \A k \in CallerCredentialHeaders \cap DOMAIN pout.o1 :
              k = CredentialHeader(pin.variant)

\* two calls with different caller keys and bearer tokens, otherwise equal
HdrCredentialWitness ==
    /\ pstage = "out"
    /\ Has(pin.h1, "x-api-key") /\ Has(pin.h2, "x-api-key")
    /\ pin.h1["x-api-key"] # pin.h2["x-api-key"]
    /\ Has(pin.h1, "authorization") /\ ~Has(pin.h2, "authorization")
    /\ Has(pin.h1, "user-agent")
    /\ NonCredential(pin.h1) = NonCredential(pin.h2)
    /\ pout.o1 = pout.o2

(***************************************************************************)
(* _validate_anthropic_request / _validate_openai_request                  *)
(***************************************************************************)
\* mutant: the length test is missing, an empty list is accepted
ValidateRequestAllowsEmpty(req) ==
    /\ Has(req, "model")
    /\ Has(req, "messages")
    /\ req["messages"].t = "list"
    /\ \A i \in 1..Len(req["messages"].items) :
          LET message == req["messages"].items[i]
          IN  /\ message.t = "dict"
              /\ Has(message.d, "role")
              /\ Has(message.d, "content")

ValidateRequest(req) ==
    /\ Has(req, "model")
    /\ Has(req, "messages")
    /\ req["messages"].t = "list"
    /\ Len(req["messages"].items) # 0
    /\ \A i \in 1..Len(req["messages"].items) :
          LET message == req["messages"].items[i]
          IN  /\ message.t = "dict"
              /\ Has(message.d, "role")
              /\ Has(message.d, "content")

(***************************************************************************)
(* Handler configuration (startup_event)                                   *)
(***************************************************************************)
ServerKey == "sk-server-1"

CacheControlTtl == "1h"

\* standardized_request = request_data.copy();
\* standardized_request['messages'] = standardized_messages
StandardizedRequest(variant, req) ==
    Put(req, "messages",
        [t |-> "list",
         items |-> Normalize(variant, CacheControlTtl, req["messages"].items)])

\* cached_request.get("thinking", {"type": "disabled", "budget_tokens": 3276})
DefaultThinking == [type |-> "disabled", budget_tokens |-> 3276]

\* the subscripts claude_reasoning['type'], claude_reasoning['budget_tokens']
ReasoningRaises(req) ==
    LET thinking == Get(req, "thinking", DefaultThinking)
    IN  ~(Has(thinking, "type") /\ Has(thinking, "budget_tokens"))

WithReasoning(req) ==
    LET thinking == Get(req, "thinking", DefaultThinking)
    IN  Put(req, "reasoning",
            [enabled |-> thinking["type"] = "enabled",
             max_tokens |-> thinking["budget_tokens"]])

(***************************************************************************)
(* Exceptions: the classes each exception is an instance of                *)
(* (asyncio, aiohttp.client_exceptions, json, builtins)                    *)
(***************************************************************************)
IsA(e) ==
    CASE e = "TimeoutError" -> {"TimeoutError", "Exception"}
      [] e = "ServerTimeoutError" ->
            {"ServerTimeoutError", "ServerConnectionError", "ClientConnectionError",
             "ClientError", "TimeoutError", "Exception"}
      [] e = "ClientConnectorError" ->
            {"ClientConnectorError", "ClientOSError", "ClientConnectionError",
             "ClientError", "Exception"}
      [] e = "ClientResponseError" ->
            {"ClientResponseError", "ClientError", "Exception"}
      [] e = "ContentTypeError" ->
            {"ContentTypeError", "ClientResponseError", "ClientError", "Exception"}
      [] e = "ClientPayloadError" ->
            {"ClientPayloadError", "ClientError", "Exception"}
      [] e = "JSONDecodeError" -> {"JSONDecodeError", "ValueError", "Exception"}
      [] OTHER -> {e, "Exception"}

\* the attributes of aiohttp.ClientResponseError: it has no text() and no
\* json() method
ClientResponseErrorAttrs == {"request_info", "history", "status", "message", "headers"}

\* an exception raised by the upstream exchange; status, json and body
\* describe the response of a ClientResponseError
UpErrorDoc == [error |-> [type |-> "overloaded_error", message |-> <<"Overloaded">>]]

Exc(e) == [e |-> e, status |-> 0, json |-> FALSE]

HttpError(status, json) == [e |-> "ClientResponseError", status |-> status, json |-> json]

\* the index of the first except clause that catches e
FirstMatch(clauses, e) ==
    CHOOSE i \in 1..Len(clauses) :
        /\ clauses[i].classes \cap IsA(e) # {}
        /\ \A j \in 1..(i - 1) : clauses[j].classes \cap IsA(e) = {}

Catch(clauses, e) == clauses[FirstMatch(clauses, e)]

Envelope(kind, message) == [error |-> [type |-> kind, message |-> message]]

Return(v) == [t |-> "return", v |-> v]

Raise(e) == [t |-> "raise", e |-> e]

(***************************************************************************)
(* handle_request / handle_stream_request on the caller's request object   *)
(***************************************************************************)
ReqIn == Addr("req", "in", 0, 0)

ReqOut == Addr("req", "out", 0, 0)

ThinkingIn == Addr("thinking", "in", 0, 0)

\* the request dict of the caller: model, messages and a thinking dict
RequestHeapOf(messages) ==
    Store(Store(HeapOf(messages), ThinkingIn,
                [t |-> "dict", d |-> [type |-> "enabled", budget_tokens |-> 1024]]),
          ReqIn,
          [t |-> "dict",
           d |-> [model |-> "m", messages |-> Ref(InRoot), thinking |-> Ref(ThinkingIn)]])

\* the request a reference stands for, as a value
ValueOfRequest(h, a) ==
    [k \in DOMAIN h[a].d |->
        IF k = "messages"
        THEN [t |-> "list", items |-> ValueOfList(h, h[a].d[k].a)]
        ELSE IF k = "thinking" THEN h[h[a].d[k].a].d
        ELSE h[a].d[k]]

\* mutant: standardized_request = request_data, the caller's own dict
CopyRequestAliases(h) == [heap |-> h, addr |-> ReqIn]

\* standardized_request = request_data.copy(): a new dict, same field values
CopyRequest(h) == [heap |-> Store(h, ReqOut, h[ReqIn]), addr |-> ReqOut]

\* the handler up to the call of the forwarder; kind is "unary" or "stream"
HandleOnHeap(h, variant, ttl, kind) ==
    IF ~ValidateRequest(ValueOfRequest(h, ReqIn))
    THEN [heap |-> h, result |-> Raise("ValueError")]
    ELSE LET r == NormalizeOnHeap(h, variant, ttl)
             c == CopyRequest(r.heap)
             h1 == SetField(c.heap, c.addr, "messages", Ref(r.root))
             thinking == IF Has(h1[c.addr].d, "thinking")
                         THEN h1[h1[c.addr].d["thinking"].a].d
                         ELSE DefaultThinking
         IN  IF variant = "openrouter" /\ kind = "stream"
             THEN IF ~(Has(thinking, "type") /\ Has(thinking, "budget_tokens"))
                  THEN [heap |-> h1, result |-> Raise("KeyError")]
                  ELSE [heap |-> SetField(h1, c.addr, "reasoning",
                                    [enabled |-> thinking["type"] = "enabled",
                                     max_tokens |-> thinking["budget_tokens"]]),
                        result |-> [t |-> "forward", a |-> c.addr]]
             ELSE [heap |-> h1, result |-> [t |-> "forward", a |-> c.addr]]

\* what the forwarder is given, as a value
Forwarded(r) ==
    IF r.result.t = "forward"
    THEN [t |-> "forward", v |-> ValueOfRequest(r.heap, r.result.a)]
    ELSE r.result

\* messages of the requests the handlers are called with
InReqMessages ==
    LET block == DictBlock([type |-> "text", text |-> "a",
                            cache_control |-> CallerDirective])
        contents == { [t |-> "str", s |-> "hi"], [t |-> "null"], EmptyList,
                      [t |-> "list", items |-> << block >>],
                      [t |-> "list", items |-> << block, [t |-> "str", s |-> "x"] >>] }
    IN  { [t |-> "dict", d |-> [role |-> "user", content |-> c]] : c \in contents }
        \cup { [t |-> "dict", d |-> [role |-> "user"]],
               [t |-> "dict",
                d |-> [role |-> "user", content |-> [t |-> "str", s |-> "hi"],
                       cache_control |-> CallerDirective]] }

InitReq ==
    /\ session = [v \in Variants |-> "none"]
    /\ call = [pc |-> "off"]
    /\ pstage = "in"
    /\ pin \in { [messages |-> ms, policy |-> p] :
                   ms \in SeqsUpTo(InReqMessages, MaxMsgs), p \in Policies }
    /\ pout = <<>>
    /\ NoPool

\* a call on the caller's request object, and a second call given the same
\* object as the first call left it
ApplyHandleOnHeap(kind) ==
    /\ pstage = "in"
    /\ pstage' = "handled"
    /\ \E before \in {RequestHeapOf(pin.messages)} :
       \E r \in {HandleOnHeap(before, pin.policy[1], pin.policy[2], kind)} :
       \E left \in {RequestHeapOf(
                       ValueOfList(r.heap, r.heap[ReqIn].d["messages"].a))} :
       \E again \in {HandleOnHeap(left, pin.policy[1], pin.policy[2], kind)} :
          pout' = [kind |-> kind, before |-> before, after |-> r.heap,
                   result |-> r.result, forwarded |-> Forwarded(r),
                   again |-> Forwarded(again)]
    /\ UNCHANGED <<session, call, pin, poolVars>>

NextNorm == ApplyNormalize \/ NormalizeAgain \/ ApplyNormalizeOnHeap

SpecNorm == InitNorm /\ [][NextNorm]_vars

NextReq == \E kind \in {"unary", "stream"} : ApplyHandleOnHeap(kind)

SpecReq == InitReq /\ [][NextReq]_vars

(***************************************************************************)
(* Validation harness: draw a request body, validate it, and run the       *)
(* normalization step on its messages value                                *)
(***************************************************************************)
\* mutant: a null content of the last message is subscripted and raises
NormalizeOutcomeNullRaises(variant, ttl, messages) ==
    IF messages.t # "list"
    THEN Raise("AttributeError")
    ELSE IF \E i \in 1..Len(messages.items) : messages.items[i].t # "dict"
    THEN Raise("AttributeError")
    ELSE IF /\ messages.items # << >>
            /\ Get(Last(messages.items).d, "content", EmptyList).t = "null"
    THEN Raise("TypeError")
    ELSE Return(Normalize(variant, ttl, messages.items))

\* the outcome of the normalization call: message.copy() exists on dicts
\* only, so a string of messages or a scalar message raises AttributeError
NormalizeOutcome(variant, ttl, messages) ==
    IF messages.t # "list"
    THEN Raise("AttributeError")
    ELSE IF \E i \in 1..Len(messages.items) : messages.items[i].t # "dict"
    THEN Raise("AttributeError")
    ELSE Return(Normalize(variant, ttl, messages.items))

InValMessages ==
    { [t |-> "scalar"],
      [t |-> "dict", d |-> EmptyDict],
      [t |-> "dict", d |-> [role |-> "user"]],
      [t |-> "dict", d |-> [content |-> [t |-> "str", s |-> "hi"]]],
      [t |-> "dict", d |-> [role |-> "user", content |-> [t |-> "str", s |-> "hi"]]],
      [t |-> "dict", d |-> [role |-> "user", content |-> [t |-> "null"]]],
      [t |-> "dict", d |-> [role |-> "user", content |-> EmptyList]],
      [t |-> "dict",
       d |-> [role |-> "user",
              content |-> [t |-> "list",
                           items |-> << DictBlock([type |-> "text", text |-> "a",
                                                   cache_control |-> CallerDirective]) >>]]] }

InValRequests ==
    { (IF model THEN "model" :> "m" ELSE EmptyDict) @@ m :
        model \in BOOLEAN,
        m \in {EmptyDict}
              \cup { "messages" :> [t |-> "str", s |-> "hi"] }
              \cup { "messages" :> [t |-> "list", items |-> ms] :
                        ms \in SeqsUpTo(InValMessages, MaxMsgs) } }

\* values of the CACHE_CONTROL_TTL environment variable
EnvTtls ==
    { [t |-> "unset"] } \cup { [t |-> "str", s |-> s] : s \in {"5m", "1h", "30m", ""} }

\* os.getenv(name, default)
Getenv(env, default) == IF env.t = "unset" THEN default ELSE env.s

\* mutant: the configured value is used without the check
StartupTtlUnchecked(env) == Getenv(env, "1h")

\* cache_control_ttl = os.getenv('CACHE_CONTROL_TTL', '1h');
\* if cache_control_ttl not in ['5m', '1h']: cache_control_ttl = '1h'
StartupTtl(env) ==
    LET cache_control_ttl == Getenv(env, "1h")
    IN  IF cache_control_ttl \notin {"5m", "1h"} THEN "1h" ELSE cache_control_ttl

\* the handler each startup_event constructs: the OpenRouter one has no TTL
\* (the model carries "1h" in its place, which PolicyDirective ignores)
Startups ==
    { [variant |-> "anthropic", env |-> e] : e \in EnvTtls }
    \cup { [variant |-> "openrouter", env |-> [t |-> "unset"]] }

StartupPolicy(su) ==
    << su.variant, IF su.variant = "anthropic" THEN StartupTtl(su.env) ELSE "1h" >>

InitVal ==
    /\ session = [v \in Variants |-> "none"]
    /\ call = [pc |-> "off"]
    /\ pstage = "in"
    /\ pin \in { [req |-> r, env |-> su.env, policy |-> StartupPolicy(su)] :
                   r \in InValRequests, su \in Startups }
    /\ pout = <<>>
    /\ NoPool

\* if not self._validate_anthropic_request(request_data)
ApplyValidate ==
    /\ pstage = "in"
    /\ pstage' = "validated"
    /\ pout' = [valid |-> ValidateRequest(pin.req)]
    /\ UNCHANGED <<session, call, pin, poolVars>>

\* self._standardize_cache_control(messages) on the request's messages
ApplyNormalizeOutcome ==
    /\ pstage = "validated"
    /\ Has(pin.req, "messages")
    /\ pstage' = "normalized"
    /\ pout' = [valid |-> pout.valid,
                norm |-> NormalizeOutcome(pin.policy[1], pin.policy[2],
                                          pin.req["messages"])]
    /\ UNCHANGED <<session, call, pin, poolVars>>

NextVal == ApplyValidate \/ ApplyNormalizeOutcome

SpecVal == InitVal /\ [][NextVal]_vars

(***************************************************************************)
(* _forward_to_anthropic / _forward_to_api: the try statement              *)
(***************************************************************************)
\* mutant: the ClientError clause is tried before the TimeoutError clause
UnaryClausesAnthropicReordered ==
    << [classes |-> {"ClientResponseError"}, kind |-> "api_error"],
       [classes |-> {"ClientError"}, kind |-> "network_error"],
       [classes |-> {"TimeoutError"}, kind |-> "timeout_error"],
       [classes |-> {"Exception"}, kind |-> "internal_error"] >>

UnaryClausesAnthropic ==
    << [classes |-> {"TimeoutError"}, kind |-> "timeout_error"],
       [classes |-> {"ClientResponseError"}, kind |-> "api_error"],
       [classes |-> {"ClientError"}, kind |-> "network_error"],
       [classes |-> {"Exception"}, kind |-> "internal_error"] >>

UnaryClausesOpenRouter ==
    << [classes |-> {"Exception"}, kind |-> "api_error"] >>

\* except aiohttp.ClientResponseError as e (anthropic_proxy.py): the log line
\* evaluates `await e.text()` before anything else
ResponseErrorHandler(x) ==
    IF "text" \notin ClientResponseErrorAttrs
    THEN Raise("AttributeError")
    ELSE IF x.json /\ "json" \in ClientResponseErrorAttrs
         THEN Return(UpErrorDoc)
         ELSE Return(Envelope("api_error",
                              <<"Anthropic API returned status", x.status>>))

UnaryHandlerAnthropic(x) ==
    LET clause == Catch(UnaryClausesAnthropic, x.e)
    IN  CASE clause.kind = "timeout_error" ->
                Return(Envelope("timeout_error",
                    <<"Request to Anthropic API timed out after 120 seconds">>))
          [] clause.kind = "api_error" -> ResponseErrorHandler(x)
          [] clause.kind = "network_error" ->
                Return(Envelope("network_error", <<"Network error: ", x.e>>))
          [] OTHER ->
                Return(Envelope("internal_error", <<"Internal server error: ", x.e>>))

UnaryHandlerOpenRouter(x) ==
    LET clause == Catch(UnaryClausesOpenRouter, x.e)
    IN  Return(Envelope(clause.kind, <<"API request failed: ", x.e>>))

\* o is the outcome of the upstream exchange: a parsed 2xx document or an
\* exception
ForwardUnary(variant, o) ==
    IF o.t = "ok"
    THEN Return(o.doc)
    ELSE IF variant = "anthropic"
         THEN UnaryHandlerAnthropic(o.x)
         ELSE UnaryHandlerOpenRouter(o.x)

(***************************************************************************)
(* _forward_stream_to_anthropic / _forward_stream_to_api: error frames     *)
(***************************************************************************)
\* mutant: the ClientError clause is tried before the ClientResponseError clause
StreamClausesAnthropicReordered ==
    << [classes |-> {"TimeoutError"}, kind |-> "timeout_error"],
       [classes |-> {"ClientError"}, kind |-> "network_error"],
       [classes |-> {"ClientResponseError"}, kind |-> "api_error"],
       [classes |-> {"Exception"}, kind |-> "unknown_error"] >>

StreamClausesAnthropic ==
    << [classes |-> {"TimeoutError"}, kind |-> "timeout_error"],
       [classes |-> {"ClientResponseError"}, kind |-> "api_error"],
       [classes |-> {"ClientError"}, kind |-> "network_error"],
       [classes |-> {"Exception"}, kind |-> "unknown_error"] >>

StreamClausesOpenRouter ==
    << [classes |-> {"ClientResponseError"}, kind |-> "http_error"],
       [classes |-> {"TimeoutError", "ServerTimeoutError"}, kind |-> "timeout_error"],
       [classes |-> {"Exception"}, kind |-> "api_error"] >>

StreamClauses(variant) ==
    IF variant = "anthropic" THEN StreamClausesAnthropic ELSE StreamClausesOpenRouter

\* mutant: the clause around the loop catches the payload error only
RelayClassesPayloadOnly == {"ClientPayloadError"}

\* except (aiohttp.ClientPayloadError, asyncio.TimeoutError) around the loop
RelayClasses == {"ClientPayloadError", "TimeoutError"}

Bytes(b) == [t |-> "bytes", b |-> b]

\* mutant: the frame ends after the data line, without the blank line
ErrorChunkUnterminated(variant, envelope) ==
    [t |-> "sse",
     lines |-> (IF variant = "anthropic"
                THEN << [line |-> "event", name |-> "error"] >>
                ELSE << >>)
               \o << [line |-> "data", json |-> envelope] >>]

\* f'event: error\ndata: {json.dumps(error_data)}\n\n'  (anthropic)
\* f'data: {json.dumps(error_data)}\n\n'                 (openrouter)
ErrorChunk(variant, envelope) ==
    [t |-> "sse",
     lines |-> (IF variant = "anthropic"
                THEN << [line |-> "event", name |-> "error"] >>
                ELSE << >>)
               \o << [line |-> "data", json |-> envelope], [line |-> "blank"] >>]

StreamMessage(variant, kind, x) ==
    CASE kind = "stream_interrupted" -> <<"Streaming interrupted due to: ", x.e>>
      [] kind = "timeout_error" /\ variant = "anthropic" ->
            <<"Request to Anthropic API timed out">>
      [] kind = "timeout_error" -> <<"Request timeout: ", x.e>>
      [] kind = "api_error" /\ variant = "anthropic" ->
            <<"Anthropic API returned status", x.status, x.e>>
      [] kind = "http_error" -> <<"HTTP", x.status, x.e>>
      [] kind = "network_error" -> <<"Network error: ", x.e>>
      [] kind = "unknown_error" -> <<"Unexpected error: ", x.e>>
      [] OTHER -> <<"Streaming request failed: ", x.e>>

\* the kind of the frame for an exception raised by session.post or
\* raise_for_status (inLoop = FALSE) or by response.content.read (inLoop = TRUE)
StreamErrorKind(variant, x, inLoop) ==
    IF inLoop /\ RelayClasses \cap IsA(x.e) # {}
    THEN "stream_interrupted"
    ELSE Catch(StreamClauses(variant), x.e).kind

StreamErrorChunk(variant, x, inLoop) ==
    LET kind == StreamErrorKind(variant, x, inLoop)
    IN  ErrorChunk(variant, Envelope(kind, StreamMessage(variant, kind, x)))

(***************************************************************************)
(* Inbound requests of the call model                                      *)
(***************************************************************************)
UserMessage(content) == [t |-> "dict", d |-> [role |-> "user", content |-> content]]

InMessageLists ==
    { [t |-> "list", items |-> << >>],
      [t |-> "list", items |-> << UserMessage([t |-> "str", s |-> "hi"]) >>],
      [t |-> "list", items |->
          << UserMessage([t |-> "list", items |->
                 << DictBlock([type |-> "text", text |-> "a",
                               cache_control |-> CallerDirective]) >>]),
             UserMessage([t |-> "str", s |-> "hi"]) >>],
      [t |-> "list", items |-> << [t |-> "scalar"] >>],
      [t |-> "list", items |-> << [t |-> "dict", d |-> [role |-> "user"]] >>],
      [t |-> "str", s |-> "hi"] }

InThinking ==
    { [type |-> "enabled", budget_tokens |-> 1024],
      [type |-> "disabled"] }

InRequests ==
    { (IF model THEN "model" :> "m" ELSE EmptyDict)
        @@ (IF topP THEN "top_p" :> 1 ELSE EmptyDict)
        @@ (IF stream THEN "stream" :> TRUE ELSE EmptyDict)
        @@ m @@ th :
        model \in BOOLEAN, topP \in BOOLEAN, stream \in BOOLEAN,
        m \in {EmptyDict} \cup { "messages" :> ms : ms \in InMessageLists },
        th \in {EmptyDict} \cup { "thinking" :> t : t \in InThinking } }

InCallHeaders ==
    { EmptyDict,
      [x \in {"x-api-key", "authorization", "user-agent"} |->
          CASE x = "x-api-key" -> "ck-1"
            [] x = "authorization" -> Bearer("ck-1")
            [] OTHER -> "curl"] }

(***************************************************************************)
(* Upstream behaviour                                                      *)
(***************************************************************************)
UpDocs ==
    { [id |-> "msg_1", type |-> "message"],
      [id |-> "msg_2", error |-> [type |-> "overloaded_error",
                                  message |-> <<"Overloaded">>]],
      [error |-> [type |-> "api_error", message |-> <<"Bad request">>]],
      [error |-> [type |-> "json_decode_error", message |-> <<"Bad body">>]] }

\* exceptions of session.post(...) and response.raise_for_status()
PostFailures ==
    { Exc("TimeoutError"), Exc("ServerTimeoutError"), Exc("ClientConnectorError"),
      Exc("RuntimeError"),
      HttpError(429, TRUE), HttpError(500, FALSE) }

\* exceptions of response.json()
JsonFailures ==
    { Exc("TimeoutError"), Exc("ClientPayloadError"), Exc("JSONDecodeError"),
      [e |-> "ContentTypeError", status |-> 200, json |-> FALSE] }

UnaryOutcomes ==
    { [t |-> "ok", doc |-> d] : d \in UpDocs }
    \cup { [t |-> "exc", x |-> x] : x \in PostFailures \cup JsonFailures }

\* exceptions of response.content.read(8192)
ReadFailures ==
    { Exc("ClientPayloadError"), Exc("TimeoutError"), Exc("ServerTimeoutError"),
      Exc("ClientConnectorError"), Exc("RuntimeError") }

ChunkValues == {"a", "b"}

(***************************************************************************)
(* The call: route, handler, generator                                     *)
(***************************************************************************)
NoCall ==
    [pc |-> "idle", variant |-> "anthropic", jsonType |-> TRUE, parses |-> TRUE,
     raw |-> EmptyDict, req |-> EmptyDict, hdrs |-> EmptyDict, isStream |-> FALSE,
     sent |-> << >>, reads |-> << >>, nreads |-> 0, out |-> << >>,
     handler |-> "none", outcome |-> [t |-> "none"],
     ret |-> [t |-> "none"], caught |-> "none", failedAfter |-> -1,
     started |-> FALSE, status |-> 0, body |-> [t |-> "none"]]

Init ==
    /\ session = [v \in Variants |-> "none"]
    /\ call = NoCall
    /\ pstage = "off"
    /\ pin = << >>
    /\ pout = << >>
    /\ NoPool

\* _get_session: self.session is None or self.session.closed
GetSession(s, variant) ==
    IF s[variant] \in {"none", "closed"} THEN [s EXCEPT ![variant] = "open"] ELSE s

\* a request reaches messages_endpoint / chat_completions_endpoint
Receive(variant, jsonType, parses, req, hdrs) ==
    /\ call.pc = "idle"
    /\ call' = [NoCall EXCEPT !.pc = "route", !.variant = variant,
                              !.jsonType = jsonType, !.parses = parses,
                              !.raw = req, !.req = req, !.hdrs = hdrs]
    /\ UNCHANGED <<session, pstage, pin, pout, poolVars>>

\* HTTPException(status_code=..., detail=...) as the route's answer
Detail(status, detail) == [status |-> status, body |-> [t |-> "detail", detail |-> detail]]

\* mutant: the route has no except ValueError clause
RouteExceptNoValueError(e) ==
    IF "JSONDecodeError" \in IsA(e)
    THEN Detail(400, "Invalid JSON in request body")
    ELSE Detail(500, "Internal server error")

\* the except clauses of the route, for an exception raised in its try block
RouteExcept(e) ==
    IF "JSONDecodeError" \in IsA(e)
    THEN Detail(400, "Invalid JSON in request body")
    ELSE IF "ValueError" \in IsA(e)
    THEN Detail(400, e)
    ELSE Detail(500, "Internal server error")

\* mutant: the route forwards the request with its top_p
RouteEntryKeepsTopP ==
    /\ call.pc = "route"
    /\ LET fail(e) == [call EXCEPT !.pc = "done", !.caught = e,
                                   !.status = RouteExcept(e).status,
                                   !.body = RouteExcept(e).body]
       IN  call' =
             IF ~call.jsonType THEN fail("HTTPException")
             ELSE IF ~call.parses THEN fail("JSONDecodeError")
             ELSE IF call.variant = "anthropic" /\ ~Has(call.req, "top_p")
             THEN fail("KeyError")
             ELSE [call EXCEPT
                     !.isStream = Get(call.req, "stream", FALSE),
                     !.req = call.req,
                     !.pc = IF Get(call.req, "stream", FALSE)
                            THEN "respond" ELSE "unary"]
    /\ UNCHANGED <<session, pstage, pin, pout, poolVars>>

\* the route up to the call of the handler
RouteEntry ==
    /\ call.pc = "route"
    /\ LET fail(e) == [call EXCEPT !.pc = "done", !.caught = e,
                                   !.status = RouteExcept(e).status,
                                   !.body = RouteExcept(e).body]
       IN  call' =
             IF ~call.jsonType THEN fail("HTTPException")
             ELSE IF ~call.parses THEN fail("JSONDecodeError")
             ELSE IF call.variant = "anthropic" /\ ~Has(call.req, "top_p")
             THEN fail("KeyError")
             ELSE [call EXCEPT
                     !.isStream = Get(call.req, "stream", FALSE),
                     !.req = IF call.variant = "anthropic"
                             THEN Without(call.req, "top_p") ELSE call.req,
                     !.pc = IF Get(call.req, "stream", FALSE)
                            THEN "respond" ELSE "unary"]
    /\ UNCHANGED <<session, pstage, pin, pout, poolVars>>

\* mutant: every error document is answered with status 500
UnaryStatusAlways500(variant, v) ==
    IF Has(v, "error") THEN 500 ELSE 200

\* the status of the unary answer for a returned document
UnaryStatus(variant, v) ==
    IF Has(v, "error")
    THEN IF variant = "anthropic"
         THEN LET kind == Get(v["error"], "type", "unknown_error")
              IN  CASE kind = "api_error" -> 400
                    [] kind = "network_error" -> 503
                    [] kind = "timeout_error" -> 408
                    [] kind = "json_decode_error" -> 502
                    [] OTHER -> 500
         ELSE 500
    ELSE 200

\* the route's answer for the result r of handle_request
UnaryAnswer(c, r) ==
    IF r.t = "raise"
    THEN [c EXCEPT !.pc = "done", !.ret = r, !.caught = r.e,
                   !.status = RouteExcept(r.e).status,
                   !.body = RouteExcept(r.e).body]
    ELSE [c EXCEPT !.pc = "done", !.ret = r,
                   !.status = UnaryStatus(c.variant, r.v),
                   !.body = [t |-> "json", v |-> r.v]]

\* handle_request up to the POST: validate, normalize, prepare headers,
\* acquire the session, send
UnaryBegin ==
    /\ call.pc = "unary"
    /\ IF ~ValidateRequest(call.req)
       THEN /\ call' = UnaryAnswer([call EXCEPT !.handler = "unary"],
                                   Raise("ValueError"))
            /\ UNCHANGED session
       ELSE /\ call' = [call EXCEPT
                  !.pc = "posting", !.handler = "unary",
                  !.sent = Append(@,
                      [body |-> StandardizedRequest(call.variant, call.req),
                       headers |-> PrepareHeaders(call.variant, ServerKey, call.hdrs)])]
            /\ session' = GetSession(session, call.variant)
    /\ UNCHANGED <<pstage, pin, pout, poolVars>>

\* mutant: a failed exchange is tried again
UnaryOutcomeRetries(o) ==
    /\ call.pc = "posting"
    /\ call' = IF o.t = "exc"
               THEN [call EXCEPT !.outcome = o]
               ELSE UnaryAnswer([call EXCEPT !.outcome = o],
                                ForwardUnary(call.variant, o))
    /\ UNCHANGED <<session, pstage, pin, pout, poolVars>>

\* the upstream exchange of a unary call ends with outcome o
UnaryOutcome(o) ==
    /\ call.pc = "posting"
    /\ call' = UnaryAnswer([call EXCEPT !.outcome = o],
                           ForwardUnary(call.variant, o))
    /\ UNCHANGED <<session, pstage, pin, pout, poolVars>>

\* the server starts the StreamingResponse the route returned
StreamRespond ==
    /\ call.pc = "respond"
    /\ call' = [call EXCEPT !.pc = "gen", !.started = TRUE, !.status = 200,
                            !.body = [t |-> "stream"]]
    /\ UNCHANGED <<session, pstage, pin, pout, poolVars>>

\* the first step of the generator handle_stream_request, up to the POST
StreamBegin ==
    /\ call.pc = "gen"
    /\ IF ~ValidateRequest(call.req)
       THEN /\ call' = [call EXCEPT !.pc = "done", !.handler = "stream",
                                    !.ret = Raise("ValueError")]
            /\ UNCHANGED session
       ELSE IF call.variant = "openrouter"
               /\ ReasoningRaises(StandardizedRequest(call.variant, call.req))
       THEN /\ call' = [call EXCEPT !.pc = "done", !.handler = "stream",
                                    !.ret = Raise("KeyError")]
            /\ UNCHANGED session
       ELSE /\ call' = [call EXCEPT
                  !.pc = "connecting", !.handler = "stream",
                  !.sent = Append(@,
                      [body |-> IF call.variant = "openrouter"
                                THEN WithReasoning(
                                        StandardizedRequest(call.variant, call.req))
                                ELSE StandardizedRequest(call.variant, call.req),
                       headers |-> PrepareHeaders(call.variant, ServerKey, call.hdrs)])]
            /\ session' = GetSession(session, call.variant)
    /\ UNCHANGED <<pstage, pin, pout, poolVars>>

\* session.post and raise_for_status succeed: the relay loop starts
StreamConnected ==
    /\ call.pc = "connecting"
    /\ call' = [call EXCEPT !.pc = "relay", !.outcome = [t |-> "ok"]]
    /\ UNCHANGED <<session, pstage, pin, pout, poolVars>>

\* session.post or raise_for_status raises x: one error frame, then the end
StreamPostFails(x) ==
    /\ call.pc = "connecting"
    /\ call' = [call EXCEPT
                  !.pc = "done", !.ret = [t |-> "end"],
                  !.outcome = [t |-> "exc", x |-> x], !.caught = x.e,
                  !.out = Append(@, StreamErrorChunk(call.variant, x, FALSE))]
    /\ UNCHANGED <<session, pstage, pin, pout, poolVars>>

\* mutant: the block is yielded twice
ReadChunkTwice(b) ==
    /\ call.pc = "relay"
    /\ Len(call.reads) < MaxChunks
    /\ call' = [call EXCEPT !.reads = Append(@, b), !.nreads = @ + 1,
                            !.out = Append(Append(@, Bytes(b)), Bytes(b))]
    /\ UNCHANGED <<session, pstage, pin, pout, poolVars>>

\* response.content.read(8192) returns a non-empty block, which is yielded
ReadChunk(b) ==
    /\ call.pc = "relay"
    /\ Len(call.reads) < MaxChunks
    /\ call' = [call EXCEPT !.reads = Append(@, b), !.nreads = @ + 1,
                            !.out = Append(@, Bytes(b))]
    /\ UNCHANGED <<session, pstage, pin, pout, poolVars>>

\* response.content.read(8192) returns b'': the loop ends
ReadEof ==
    /\ call.pc = "relay"
    /\ call' = [call EXCEPT !.pc = "done", !.nreads = @ + 1, !.ret = [t |-> "end"]]
    /\ UNCHANGED <<session, pstage, pin, pout, poolVars>>

\* response.content.read(8192) raises x: one error frame, then the end
ReadFails(x) ==
    /\ call.pc = "relay"
    /\ call' = [call EXCEPT
                  !.pc = "done", !.nreads = @ + 1, !.ret = [t |-> "end"],
                  !.failedAfter = Len(call.reads),
                  !.caught = x.e,
                  !.out = Append(@, StreamErrorChunk(call.variant, x, TRUE))]
    /\ UNCHANGED <<session, pstage, pin, pout, poolVars>>

\* the answer has been delivered; the request-scoped state is discarded
Complete ==
    /\ call.pc = "done"
    /\ call' = NoCall
    /\ UNCHANGED <<session, pstage, pin, pout, poolVars>>

\* close(): shutdown_event
Close(variant) ==
    /\ call.pc = "idle"
    /\ session[variant] = "open"
    /\ session' = [session EXCEPT ![variant] = "closed"]
    /\ UNCHANGED <<call, pstage, pin, pout, poolVars>>

Next ==
    \/ \E v \in Variants, hdrs \in InCallHeaders :
          \/ \E req \in InRequests : Receive(v, TRUE, TRUE, req, hdrs)
          \/ Receive(v, TRUE, FALSE, EmptyDict, hdrs)
          \/ Receive(v, FALSE, TRUE, EmptyDict, hdrs)
    \/ RouteEntry
    \/ UnaryBegin
    \/ \E o \in UnaryOutcomes : UnaryOutcome(o)
    \/ StreamRespond
    \/ StreamBegin
    \/ StreamConnected
    \/ \E x \in PostFailures : StreamPostFails(x)
    \/ \E b \in ChunkValues : ReadChunk(b)
    \/ ReadEof
    \/ \E x \in ReadFailures : ReadFails(x)
    \/ Complete
    \/ \E v \in Variants : Close(v)

Spec == Init /\ [][Next]_vars

\* the steps of the call in flight.  The event loop runs every coroutine
\* that is ready; the upstream delivers a chunk, the end of the body or a
\* failure, or a timeout of ClientTimeout fires; the consumer of a stream
\* keeps pulling the generator.
CallStep ==
    \/ RouteEntry
    \/ UnaryBegin
    \/ \E o \in UnaryOutcomes : UnaryOutcome(o)
    \/ StreamRespond
    \/ StreamBegin
    \/ StreamConnected
    \/ \E x \in PostFailures : StreamPostFails(x)
    \/ \E b \in ChunkValues : ReadChunk(b)
    \/ ReadEof
    \/ \E x \in ReadFailures : ReadFails(x)

SpecLive == Init /\ [][Next]_vars /\ WF_vars(CallStep)

(***************************************************************************)
(* The session pool under concurrent calls.  The event loop runs one       *)
(* coroutine at a time and switches only at an await that suspends;        *)
(* _get_session has no await in its body, so it is one step.               *)
(***************************************************************************)
\* mutant: a new ClientSession is constructed on every call
AcquireClientAlwaysNew(cs) == Append(cs, "open")

\* _get_session on the handler's clients, the last one being self.session
AcquireClient(cs) ==
    IF cs = << >> \/ Last(cs) = "closed" THEN Append(cs, "open") ELSE cs

\* TCPConnector(limit=50, limit_per_host=10), scaled down with the number
\* of calls; each handler posts to one destination
LimitPerHost == 2

LimitTotal == 3

IdleCall ==
    [pc |-> "idle", variant |-> "none", client |-> 0, conn |-> FALSE,
     result |-> [t |-> "none"]]

\* each proxy is a process of its own with one global request_handler: a
\* run has the calls and the shutdown of one handler, pin.handler
InitPool ==
    /\ session = [v \in Variants |-> "none"]
    /\ call = [pc |-> "off"]
    /\ pstage = "off"
    /\ pin \in { [handler |-> v] : v \in Variants }
    /\ pout = << >>
    /\ calls = [c \in 1..NCalls |-> IdleCall]
    /\ clients = [v \in Variants |-> << >>]
    /\ closing = [v \in Variants |-> 0]

\* the calls that hold a connection of client k of handler v
Connected(v, k) ==
    {c \in 1..NCalls : calls[c].variant = v /\ calls[c].client = k /\ calls[c].conn}

\* the upstream's answer to the request of call c
PoolDoc(c) == [id |-> c, type |-> "message"]

\* how the upstream exchange of call c can end once it has a connection
PoolOutcomes(c) ==
    { [t |-> "ok", doc |-> PoolDoc(c)],
      [t |-> "exc", x |-> Exc("TimeoutError")],
      [t |-> "exc", x |-> Exc("ClientConnectorError")],
      [t |-> "exc", x |-> HttpError(429, TRUE)] }

\* a valid request reaches the route, which awaits request.json(); the next
\* suspension of the call is inside session.post, after _get_session
PoolEnter(c, v) ==
    /\ v = pin.handler
    /\ calls[c].pc = "idle"
    /\ calls' = [calls EXCEPT ![c] = [IdleCall EXCEPT !.pc = "acquire", !.variant = v]]
    /\ UNCHANGED <<session, call, pstage, pin, pout, clients, closing>>

\* mutant: the handler serves one call at a time, a call acquires the
\* session only when no other call is inside session.post
PoolAcquireSerialized(c) ==
    LET v == calls[c].variant
    IN  /\ calls[c].pc = "acquire"
        /\ \A d \in 1..NCalls : calls[d].pc # "posting"
        /\ Len(AcquireClient(clients[v])) <= MaxClients
        /\ clients' = [clients EXCEPT ![v] = AcquireClient(@)]
        /\ session' = GetSession(session, v)
        /\ calls' = [calls EXCEPT ![c] = [@ EXCEPT !.pc = "posting",
                                                   !.client = Len(clients'[v])]]
        /\ UNCHANGED <<call, pstage, pin, pout, closing>>

\* session = await self._get_session()
PoolAcquire(c) ==
    LET v == calls[c].variant
    IN  /\ calls[c].pc = "acquire"
        /\ Len(AcquireClient(clients[v])) <= MaxClients
        /\ clients' = [clients EXCEPT ![v] = AcquireClient(@)]
        /\ session' = GetSession(session, v)
        /\ calls' = [calls EXCEPT ![c] = [@ EXCEPT !.pc = "posting",
                                                   !.client = Len(clients'[v])]]
        /\ UNCHANGED <<call, pstage, pin, pout, closing>>

\* mutant: the connector hands out a connection whatever the limits
PoolConnectUnlimited(c) ==
    LET v == calls[c].variant
        k == calls[c].client
    IN  /\ calls[c].pc = "posting"
        /\ ~calls[c].conn
        /\ clients[v][k] = "open"
        /\ calls' = [calls EXCEPT ![c].conn = TRUE]
        /\ UNCHANGED <<session, call, pstage, pin, pout, clients, closing>>

\* session.post(...): the connector hands the call a connection when the
\* limits leave one free
PoolConnect(c) ==
    LET v == calls[c].variant
        k == calls[c].client
    IN  /\ calls[c].pc = "posting"
        /\ ~calls[c].conn
        /\ clients[v][k] = "open"
        /\ Cardinality(Connected(v, k)) < LimitPerHost
        /\ Cardinality(Connected(v, k)) < LimitTotal
        /\ calls' = [calls EXCEPT ![c].conn = TRUE]
        /\ UNCHANGED <<session, call, pstage, pin, pout, clients, closing>>

\* ClientTimeout(connect=60): the wait for a free connection of the pool
\* ends with a timeout, which the except clauses turn into the result
PoolConnectTimeout(c) ==
    LET v == calls[c].variant
        k == calls[c].client
    IN  /\ calls[c].pc = "posting"
        /\ ~calls[c].conn
        /\ clients[v][k] = "open"
        /\ Cardinality(Connected(v, k)) >= LimitPerHost
        /\ calls' = [calls EXCEPT ![c] =
                       [@ EXCEPT !.pc = "done",
                                 !.result = ForwardUnary(v,
                                    [t |-> "exc", x |-> Exc("ServerTimeoutError")])]]
        /\ UNCHANGED <<session, call, pstage, pin, pout, clients, closing>>

\* the session was closed before the call got a connection: session.post
\* raises RuntimeError("Session is closed")
PoolPostOnClosed(c) ==
    LET v == calls[c].variant
        k == calls[c].client
    IN  /\ calls[c].pc = "posting"
        /\ ~calls[c].conn
        /\ clients[v][k] = "closed"
        /\ calls' = [calls EXCEPT ![c] =
                       [@ EXCEPT !.pc = "done",
                                 !.result = ForwardUnary(v,
                                    [t |-> "exc", x |-> Exc("RuntimeError")])]]
        /\ UNCHANGED <<session, call, pstage, pin, pout, clients, closing>>

\* the upstream exchange ends with outcome o, a response or an exception;
\* the connection goes back to the pool and the call leaves the session as
\* it is.  A closed session has closed its connections: no response arrives.
PoolFinish(c, o) ==
    LET v == calls[c].variant
        k == calls[c].client
    IN  /\ calls[c].pc = "posting"
        /\ calls[c].conn
        /\ o.t = "ok" => clients[v][k] = "open"
        /\ calls' = [calls EXCEPT ![c] =
                       [@ EXCEPT !.pc = "done", !.conn = FALSE,
                                 !.result = ForwardUnary(v, o)]]
        /\ UNCHANGED <<session, call, pstage, pin, pout, clients, closing>>

\* handle_request returns the result to the route
PoolComplete(c) ==
    /\ calls[c].pc = "done"
    /\ calls' = [calls EXCEPT ![c] = IdleCall]
    /\ UNCHANGED <<session, call, pstage, pin, pout, clients, closing>>

\* shutdown_event: await request_handler.close(), the one call of close()
\* in a running loop.  With self.session open it awaits
\* self.session.close(); the library marks the session closed either
\* before the await suspends (now) or when it completes
PoolCloseBegin(v, now) ==
    /\ v = pin.handler
    /\ closing[v] = 0
    /\ session[v] = "open"
    /\ closing' = [closing EXCEPT ![v] = Len(clients[v])]
    /\ IF now
       THEN /\ clients' = [clients EXCEPT ![v][Len(clients[v])] = "closed"]
            /\ session' = [session EXCEPT ![v] = "closed"]
       ELSE UNCHANGED <<clients, session>>
    /\ UNCHANGED <<call, pstage, pin, pout, calls>>

\* await self.session.close() completes, and with it the shutdown hook
PoolCloseEnd(v) ==
    /\ closing[v] > 0
    /\ clients' = [clients EXCEPT ![v][closing[v]] = "closed"]
    /\ session' = IF closing[v] = Len(clients[v])
                  THEN [session EXCEPT ![v] = "closed"]
                  ELSE session
    /\ closing' = [closing EXCEPT ![v] = -1]
    /\ UNCHANGED <<call, pstage, pin, pout, calls>>

\* shutdown_event with no client to close: close() returns at its test
PoolCloseNoClient(v) ==
    /\ v = pin.handler
    /\ closing[v] = 0
    /\ session[v] # "open"
    /\ closing' = [closing EXCEPT ![v] = -1]
    /\ UNCHANGED <<session, call, pstage, pin, pout, calls, clients>>

NextPool ==
    \/ \E c \in 1..NCalls, v \in Variants : PoolEnter(c, v)
    \/ \E c \in 1..NCalls : PoolAcquire(c)
    \/ \E c \in 1..NCalls : PoolConnect(c)
    \/ \E c \in 1..NCalls : PoolConnectTimeout(c)
    \/ \E c \in 1..NCalls : PoolPostOnClosed(c)
    \/ \E c \in 1..NCalls : \E o \in PoolOutcomes(c) : PoolFinish(c, o)
    \/ \E c \in 1..NCalls : PoolComplete(c)
    \/ \E v \in Variants, now \in BOOLEAN : PoolCloseBegin(v, now)
    \/ \E v \in Variants : PoolCloseEnd(v)
    \/ \E v \in Variants : PoolCloseNoClient(v)

SpecPool == InitPool /\ [][NextPool]_vars

(***************************************************************************)
(* close() and _get_session() called one after the other on one handler    *)
(***************************************************************************)
\* mutant: self.session.close() without the test
CloseClientUnguarded(s) == "closed"

\* close(): if self.session and not self.session.closed:
\*              await self.session.close()
CloseClient(s) == IF s = "open" THEN "closed" ELSE s

InitOps ==
    /\ session = [v \in Variants |-> "none"]
    /\ call = [pc |-> "off"]
    /\ pstage = "in"
    /\ pin \in { [variant |-> v, ops |-> o] :
                   v \in Variants, o \in SeqsUpTo({"acquire", "close"}, MaxOps) }
    /\ pout = <<>>
    /\ NoPool

\* the next operation is _get_session(); pout keeps self.session after
\* each operation
OpAcquire ==
    /\ pstage = "in"
    /\ Len(pout) < Len(pin.ops)
    /\ pin.ops[Len(pout) + 1] = "acquire"
    /\ session' = GetSession(session, pin.variant)
    /\ pout' = Append(pout, session'[pin.variant])
    /\ UNCHANGED <<call, pstage, pin, poolVars>>

\* the next operation is close(), which returns
OpClose ==
    /\ pstage = "in"
    /\ Len(pout) < Len(pin.ops)
    /\ pin.ops[Len(pout) + 1] = "close"
    /\ session' = [session EXCEPT ![pin.variant] = CloseClient(@)]
    /\ pout' = Append(pout, session'[pin.variant])
    /\ UNCHANGED <<call, pstage, pin, poolVars>>

NextOps == OpAcquire \/ OpClose

SpecOps == InitOps /\ [][NextOps]_vars

(***************************************************************************)
(* Properties of the call model                                            *)
(***************************************************************************)
\* the error kind of a JSON answer, "" when it is not an error envelope
ErrorKindOf(v) ==
    IF Has(v, "error") /\ Has(v["error"], "type") THEN v["error"]["type"] ELSE ""

IsEnvelope(v) ==
    /\ Has(v, "error")
    /\ Has(v["error"], "type")
    /\ Has(v["error"], "message")

\* a well-formed SSE error frame: an optional "event: error" line, a data
\* line holding a JSON ErrorEnvelope, a blank line
IsErrorFrame(item) ==
    /\ item.t = "sse"
    /\ Len(item.lines) \in {2, 3}
    /\ Len(item.lines) = 3 => item.lines[1] = [line |-> "event", name |-> "error"]
    /\ item.lines[Len(item.lines) - 1].line = "data"
    /\ IsEnvelope(item.lines[Len(item.lines) - 1].json)
    /\ item.lines[Len(item.lines)] = [line |-> "blank"]

RelayedBytes(reads) == [i \in 1..Len(reads) |-> Bytes(reads[i])]

\* C1: a streaming call on a valid request never raises to its consumer, and
\* its output is either every upstream chunk up to end-of-body or the chunks
\* read so far followed by exactly one error frame as the last element.
StreamNeverRaisesNorTruncates ==
    (call.pc = "done" /\ call.handler = "stream" /\ ValidateRequest(call.req)) =>
        /\ call.ret.t = "end"
        /\ \/ call.out = RelayedBytes(call.reads)
           \/ /\ Len(call.out) = Len(call.reads) + 1
              /\ SubSeq(call.out, 1, Len(call.reads)) = RelayedBytes(call.reads)
              /\ IsErrorFrame(Last(call.out))

\* C2: the unary forward operation never raises: whatever the upstream
\* outcome, it returns the upstream document or an ErrorEnvelope.
UnaryForwardNeverRaises ==
    (call.pc = "done" /\ call.handler = "unary" /\ call.outcome.t # "none") =>
        /\ call.ret.t = "return"
        /\ \/ call.outcome.t = "ok" /\ call.ret.v = call.outcome.doc
           \/ IsEnvelope(call.ret.v)

StreamInvalidRejectedBeforeStart ==
    (call.pc = "done" /\ call.isStream /\ ~ValidateRequest(call.req)) =>
        /\ call.out = << >>
        /\ call.sent = << >>
        /\ ~call.started
        /\ call.status = 400

IsHttpFailure(o) == o.t = "exc" /\ o.x.e = "ClientResponseError"

\* C7: a non-2xx upstream answer to a unary call gives an envelope of kind
\* api_error or, when the upstream error body is JSON, that upstream JSON.
UnaryNon2xxGivesApiError ==
    (call.pc = "done" /\ call.handler = "unary" /\ IsHttpFailure(call.outcome)) =>
        /\ call.ret.t = "return"
        /\ \/ ErrorKindOf(call.ret.v) = "api_error" /\ IsEnvelope(call.ret.v)
           \/ call.outcome.x.json /\ call.ret.v = UpErrorDoc

OpenRouterUnaryTimeoutKind ==
    (/\ call.pc = "done" /\ call.handler = "unary" /\ call.variant = "openrouter"
     /\ call.outcome.t = "exc"
     /\ "TimeoutError" \in IsA(call.outcome.x.e)) =>
        /\ call.ret.t = "return"
        /\ ErrorKindOf(call.ret.v) = "timeout_error"

\* C10: when the upstream body fails with a payload error or a read timeout
\* after N chunks, the stream is exactly those N chunks in order, then one
\* well-formed SSE error frame, then the end; the failing read is the last
\* upstream read.
MidStreamFailureEndsWithFrame ==
    (/\ call.pc = "done" /\ call.failedAfter >= 0
     /\ RelayClasses \cap IsA(call.caught) # {}) =>
        /\ call.ret.t = "end"
        /\ Len(call.reads) = call.failedAfter
        /\ Len(call.out) = call.failedAfter + 1
        /\ \A i \in 1..call.failedAfter : call.out[i] = Bytes(call.reads[i])
        /\ IsErrorFrame(Last(call.out))
        /\ Len(Last(call.out).lines) = (IF call.variant = "anthropic" THEN 3 ELSE 2)
        /\ call.nreads = call.failedAfter + 1

\* a read timeout after two different chunks
MidStreamFailureWitness ==
    /\ call.pc = "done"
    /\ call.failedAfter = 2
    /\ call.caught = "ServerTimeoutError"
    /\ call.reads[1] # call.reads[2]
    /\ Len(call.out) = 3

\* the initial POST of a streaming call failed: no block has been read
IsPreStreamFailure ==
    /\ call.pc = "done"
    /\ call.handler = "stream"
    /\ call.outcome.t = "exc"
    /\ call.failedAfter = -1

FrameKind(item) == ErrorKindOf(item.lines[Len(item.lines) - 1].json)

RelayKeepsOrder ==
    call.handler = "stream" =>
        /\ Len(call.out) \in {Len(call.reads), Len(call.reads) + 1}
        /\ \A i \in 1..Len(call.reads) : call.out[i] = Bytes(call.reads[i])
        /\ call.pc = "relay" => Len(call.out) = Len(call.reads)
        /\ (call.pc = "done" /\ call.ret.t = "end" /\ call.outcome.t = "ok"
            /\ call.failedAfter = -1) =>
              /\ call.out = RelayedBytes(call.reads)
              /\ call.nreads = Len(call.reads) + 1

\* two different blocks were relayed and the body then ended
RelayKeepsOrderWitness ==
    /\ call.pc = "done"
    /\ call.handler = "stream"
    /\ call.outcome.t = "ok"
    /\ call.failedAfter = -1
    /\ Len(call.reads) = 2
    /\ call.reads[1] # call.reads[2]
    /\ call.nreads = 3
    /\ call.out = RelayedBytes(call.reads)

\* C13: a well-formed POST /v1/messages without top_p is validated,
\* normalized and forwarded; a 2xx upstream answer reaches the caller as
\* HTTP 200 with the upstream payload.
AnthropicWithoutTopPForwarded ==
    (/\ call.pc = "done" /\ call.variant = "anthropic"
     /\ call.jsonType /\ call.parses
     /\ ValidateRequest(call.raw) /\ ~Has(call.raw, "top_p")) =>
        /\ Len(call.sent) = 1
        /\ call.sent[1].body["messages"].items =
              Normalize("anthropic", CacheControlTtl, call.raw["messages"].items)
        /\ (~call.isStream /\ call.outcome.t = "ok") =>
              (call.status = 200 /\ call.body = [t |-> "json", v |-> call.outcome.doc])

(***************************************************************************)
(* Properties of normalization                                             *)
(***************************************************************************)
\* the directive the harness's policy stands for
HarnessDirective ==
    IF pin.policy[1] = "anthropic"
    THEN [type |-> "ephemeral", ttl |-> pin.policy[2]]
    ELSE [type |-> "ephemeral"]

ExpectedTextBlock(text) ==
    [t |-> "dict",
     d |-> [type |-> "text", text |-> text, cache_control |-> HarnessDirective]]

\* C14: when the last message's content is an empty block sequence,
\* normalization replaces it with one synthesized empty text block carrying
\* the policy's directive.
NormEmptyListGetsBlock ==
    (/\ pstage = "out" /\ pin.messages # << >>
     /\ Has(Last(pin.messages).d, "content")
     /\ Last(pin.messages).d["content"] = EmptyList) =>
        Last(pout).d["content"] =
            [t |-> "list", items |-> << ExpectedTextBlock("") >>]

\* C15: normalization is idempotent: normalizing the output again gives the
\* same output.
NormIdempotent ==
    pstage = "twice" => pout.twice = pout.once

\* a list whose last element is not a structured block was normalized twice:
\* the first call appended a block, the second did not append another
NormIdempotentWitness ==
    /\ pstage = "twice"
    /\ pin.messages # << >>
    /\ Has(Last(pin.messages).d, "content")
    /\ Last(pin.messages).d["content"].t = "list"
    /\ Len(Last(pin.messages).d["content"].items) = 1
    /\ Last(pin.messages).d["content"].items[1].t = "str"
    /\ Len(Last(pout.once).d["content"].items) = 2
    /\ Len(Last(pout.twice).d["content"].items) = 2

\* C17: a plain string s as content of the last message becomes the single
\* block {type: text, text: s, cache_control: policy directive}; a string
\* content of any other message stays the same string.
NormStringContent ==
    pstage = "out" =>
        \A i \in 1..Len(pin.messages) :
            (Has(pin.messages[i].d, "content")
             /\ pin.messages[i].d["content"].t = "str") =>
                pout[i].d["content"] =
                    IF i = Len(pin.messages)
                    THEN [t |-> "list",
                          items |-> << ExpectedTextBlock(pin.messages[i].d["content"].s) >>]
                    ELSE pin.messages[i].d["content"]

\* two messages with string contents under the TTL-aware policy
NormStringContentWitness ==
    /\ pstage = "out"
    /\ pin.policy[1] = "anthropic"
    /\ Len(pin.messages) = 2
    /\ \A i \in 1..2 : /\ Has(pin.messages[i].d, "content")
                       /\ pin.messages[i].d["content"].t = "str"
    /\ pout[1].d["content"].t = "str"
    /\ pout[2].d["content"].t = "list"

\* C16: normalization never mutates its argument: every object of the input
\* (the list, each message, each content list, each block) is unchanged after
\* the call, stray directives included, so a second call sees the original
\* shape; the returned structure is the normalized sequence.
NormLeavesInputUntouched ==
    pstage = "heap" =>
        /\ \A a \in DOMAIN pout.before : pout.after[a] = pout.before[a]
        /\ ValueOfList(pout.after, InRoot) = pin.messages
        /\ ValueOfList(pout.after, pout.root) =
              Normalize(pin.policy[1], pin.policy[2], pin.messages)

\* an input with directives at message level and on blocks has been
\* normalized; the input still carries them, the output carries one
NormLeavesInputUntouchedWitness ==
    /\ pstage = "heap"
    /\ Len(pin.messages) = 2
    /\ {<<1, 0>>, <<1, 1>>, <<2, 0>>, <<2, 2>>}
          \subseteq DirectivePositions(ValueOfList(pout.after, InRoot))
    /\ DirectivePositions(ValueOfList(pout.after, pout.root)) = {<<2, 2>>}

\* C18: normalization has no error outcome on a request that passed
\* validation; an empty sequence is returned as it is; a last message whose
\* content is null gets a new content of one empty text block carrying the
\* directive.
NormalizeTotalOnValid ==
    pstage = "normalized" =>
        LET messages == pin.req["messages"]
            directive == PolicyDirective(pin.policy[1], pin.policy[2])
        IN  /\ pout.valid => pout.norm.t = "return"
            /\ messages = EmptyList => pout.norm = Return(<< >>)
            /\ (/\ pout.valid
                /\ Last(messages.items).d["content"].t = "null")
               => Last(pout.norm.v).d["content"] =
                     [t |-> "list", items |-> << TextBlock("", directive) >>]

\* a validated request whose last message has null content was normalized
NormalizeTotalOnValidWitness ==
    /\ pstage = "normalized"
    /\ pout.valid
    /\ Len(pin.req["messages"].items) = 2
    /\ Last(pin.req["messages"].items).d["content"].t = "null"
    /\ pout.norm.t = "return"

\* one of the rejection cases of validation
ValidationRejects(req) ==
    \/ ~Has(req, "model")
    \/ ~Has(req, "messages")
    \/ /\ Has(req, "messages")
       /\ \/ req["messages"].t # "list"
          \/ req["messages"] = EmptyList
          \/ /\ req["messages"].t = "list"
             /\ \E i \in 1..Len(req["messages"].items) :
                   LET message == req["messages"].items[i]
                   IN  \/ message.t = "scalar"
                       \/ /\ message.t = "dict"
                          /\ \/ "role" \notin DOMAIN message.d
                             \/ "content" \notin DOMAIN message.d

\* C19: validate returns true exactly when the request has a model field, a
\* messages field that is a non-empty sequence, and every message is a record
\* with both a role and a content key; false in every other case.
ValidateExactly ==
    pstage = "validated" =>
        /\ pout.valid = ~ValidationRejects(pin.req)
        /\ pout.valid =
              (/\ {"model", "messages"} \subseteq DOMAIN pin.req
               /\ pin.req["messages"].t = "list"
               /\ Len(pin.req["messages"].items) > 0
               /\ \A i \in 1..Len(pin.req["messages"].items) :
                     /\ pin.req["messages"].items[i].t = "dict"
                     /\ {"role", "content"} \subseteq
                           DOMAIN pin.req["messages"].items[i].d)

\* validation accepted a two-message request
ValidateExactlyWitness ==
    /\ pstage = "validated"
    /\ pout.valid
    /\ Len(pin.req["messages"].items) = 2

OpenClients(v) == {k \in 1..Len(clients[v]) : clients[v][k] = "open"}

\* self.session of a handler is the last client it constructed
SessionIsLastClient ==
    \A v \in Variants :
        session[v] = IF clients[v] = << >> THEN "none" ELSE Last(clients[v])

\* a step constructs a client only when none exists or the current one is
\* closed, and an acquiring call gets the current client, which is open and
\* is the existing one whenever that was open
AcquireStep ==
    /\ \A v \in Variants :
          Len(clients'[v]) > Len(clients[v]) => session[v] \in {"none", "closed"}
    /\ \A c \in 1..NCalls :
          (calls[c].pc = "acquire" /\ calls'[c].pc = "posting") =>
              LET v == calls[c].variant
              IN  /\ calls'[c].client = Len(clients'[v])
                  /\ clients'[v][calls'[c].client] = "open"
                  /\ session[v] = "open" => clients'[v] = clients[v]

\* C20: across any interleaving of concurrent calls on one handler, acquire
\* returns the existing client whenever it exists and is open and constructs
\* a new one only when none exists or the current one is closed; at most one
\* open client exists per handler at any time.
PoolSingleOpenClient ==
    /\ [](\A v \in Variants : Cardinality(OpenClients(v)) <= 1)
    /\ []SessionIsLastClient
    /\ [][AcquireStep]_vars

\* two calls on one handler hold the same, only, client
PoolSingleOpenClientWitness ==
    /\ calls[1].pc = "posting" /\ calls[2].pc = "posting"
    /\ calls[1].variant = calls[2].variant
    /\ calls[1].client = 1 /\ calls[2].client = 1
    /\ clients[calls[1].variant] = << "open" >>

\* self.session before operation i of the run
SessionBefore(i) == IF i = 1 THEN "none" ELSE pout[i - 1]

\* C21: close is idempotent: it closes the client when one is open and
\* changes nothing otherwise (no client yet, or a closed one), so a close
\* that follows a close leaves the state of the first.
CloseIdempotent ==
    \A i \in 1..Len(pout) :
        pin.ops[i] = "close" =>
            /\ SessionBefore(i) = "open" => pout[i] = "closed"
            /\ SessionBefore(i) \in {"none", "closed"} => pout[i] = SessionBefore(i)
            /\ (i > 1 /\ pin.ops[i - 1] = "close") => pout[i] = pout[i - 1]

\* close on a handler that never had a client, and two closes in a row
\* after an acquire, have run
CloseIdempotentWitness ==
    /\ pin.ops = << "close", "acquire", "close", "close" >>
    /\ pout = << "none", "open", "closed", "closed" >>

SingleAttemptPerCall ==
    (/\ call.pc = "done"
     /\ call.handler \in {"unary", "stream"}
     /\ ValidateRequest(call.req))
    => Len(call.sent) = 1

\* call c is inside session.post without a connection, on an open client
WaitsForConnection(c) ==
    /\ calls[c].pc = "posting"
    /\ ~calls[c].conn
    /\ clients[calls[c].variant][calls[c].client] = "open"

ConnectTimeoutResult(v) ==
    ForwardUnary(v, [t |-> "exc", x |-> Exc("ServerTimeoutError")])

PoolWithinLimits ==
    \A v \in Variants : \A k \in 1..Len(clients[v]) :
        /\ Cardinality(Connected(v, k)) <= LimitPerHost
        /\ Cardinality(Connected(v, k)) <= LimitTotal

\* C24 as stated: the open connections never exceed the pool bounds, and a
\* call that waits for a connection proceeds: no call ends, failed, merely
\* because the pool was full.
PoolFullNeverFails ==
    /\ []PoolWithinLimits
    /\ [][\A c \in 1..NCalls : WaitsForConnection(c) => calls'[c].pc # "done"]_vars

\* C24, amended: the open connections never exceed the pool bounds; a call
\* beyond the bound waits, gets a connection as soon as one is free, and
\* ends without one only when the pool is still full at the connect
\* timeout, then with its own timeout result; a successful call returns the
\* document the upstream sent for its own request.
PoolFullWaitsOrTimesOut ==
    /\ []PoolWithinLimits
    /\ [](\A c \in 1..NCalls :
            (/\ calls[c].pc = "done"
             /\ calls[c].result.t = "return"
             /\ ~IsEnvelope(calls[c].result.v))
            => calls[c].result.v = PoolDoc(c))
    /\ [][\A c \in 1..NCalls :
            (WaitsForConnection(c) /\ calls'[c].pc = "done") =>
                /\ Cardinality(Connected(calls[c].variant, calls[c].client))
                      >= LimitPerHost
                /\ calls'[c].result = ConnectTimeoutResult(calls[c].variant)
                /\ \A d \in 1..NCalls \ {c} : calls'[d] = calls[d]]_vars

\* the pool of the handler is full and a further call waits for a connection
PoolFullWitness ==
    \E c \in 1..NCalls :
        /\ WaitsForConnection(c)
        /\ Cardinality(Connected(calls[c].variant, calls[c].client)) = LimitPerHost

\* the calls of handler v that have arrived and have no result yet
InFlight(v) ==
    {c \in 1..NCalls : calls[c].variant = v /\ calls[c].pc \in {"acquire", "posting"}}

\* C25: K concurrent unary calls, K no larger than the per-destination
\* limit, are not serialized: no call waits for another call to complete
\* before it acquires the session and its request is sent.
CallsNotSerialized ==
    \A c \in 1..NCalls :
        Cardinality(InFlight(calls[c].variant)) <= LimitPerHost =>
            /\ calls[c].pc = "acquire" => ENABLED PoolAcquire(c)
            /\ WaitsForConnection(c) => ENABLED PoolConnect(c)

\* as many calls as the per-destination limit wait on the upstream at the
\* same time, each on a connection of its own
CallsNotSerializedWitness ==
    \E v \in Variants :
        /\ Cardinality(InFlight(v)) = LimitPerHost
        /\ \A c \in InFlight(v) : calls[c].pc = "posting" /\ calls[c].conn

\* C26: a call that times out or otherwise fails is converted to its own
\* error result and has no effect on the shared client or on other calls:
\* the step that ends a call neither closes nor replaces the client and
\* leaves every other call as it is, and the result of a call is its own
\* upstream document or an error envelope.
FailedCallIsIsolated ==
    /\ [](\A c \in 1..NCalls :
            calls[c].pc = "done" =>
                /\ calls[c].result.t = "return"
                /\ \/ calls[c].result.v = PoolDoc(c)
                   \/ IsEnvelope(calls[c].result.v))
    /\ [][\A c \in 1..NCalls :
            (calls[c].pc = "posting" /\ calls'[c].pc = "done") =>
                /\ clients' = clients
                /\ session' = session
                /\ \A d \in 1..NCalls \ {c} : calls'[d] = calls[d]]_vars

\* C27: every call eventually finishes: with an upstream that always
\* eventually delivers a chunk, the end of the body or a failure (or a
\* timeout fires) and a consumer that keeps consuming, every streaming call
\* reaches the end of its sequence and every unary call returns.
CallsTerminate == (call.pc \notin {"idle", "done"}) ~> (call.pc = "done")

\* a streaming call has ended after relaying chunks, the upstream having
\* failed in the middle of the body
CallsTerminateWitness ==
    /\ call.pc = "done"
    /\ call.handler = "stream"
    /\ Len(call.reads) >= 2
    /\ call.failedAfter = Len(call.reads)

\* C28: on an upstream 2xx answer to a unary call the parsed upstream JSON
\* document is returned verbatim and reaches the caller unchanged as a
\* successful (HTTP 200) response, whatever keys the document contains.
Unary2xxVerbatim ==
    (/\ call.pc = "done"
     /\ call.handler = "unary"
     /\ call.outcome.t = "ok")
    => /\ call.ret = Return(call.outcome.doc)
       /\ call.body = [t |-> "json", v |-> call.outcome.doc]
       /\ call.status = 200

\* the allow-list the specification names
AllowListed == {"anthropic-beta", "user-agent"}

Restrict(h, names) == [k \in (DOMAIN h) \cap names |-> h[k]]

ContentTypeOf(o) ==
    IF Has(o, "content-type") THEN o["content-type"] ELSE o["Content-Type"]

PreStreamKinds ==
    {"timeout_error", "api_error", "network_error", "unknown_error", "http_error"}

\* a streaming call has ended with a synthesized error frame
EndedWithErrorFrame ==
    /\ call.pc = "done"
    /\ call.handler = "stream"
    /\ Len(call.out) > 0
    /\ IsErrorFrame(Last(call.out))

BytesYielded == {i \in 1..Len(call.out) : call.out[i].t = "bytes"}

\* C30 as stated: any failure after at least one relayed chunk ends the
\* stream with a frame of kind stream_interrupted, and a frame of a
\* pre-stream kind is emitted only when no upstream byte has been yielded.
FailureAfterBytesIsInterrupted ==
    EndedWithErrorFrame =>
        /\ call.failedAfter >= 1 => FrameKind(Last(call.out)) = "stream_interrupted"
        /\ FrameKind(Last(call.out)) \in PreStreamKinds => BytesYielded = {}

\* the kind the clauses after the connection give to an exception class
KindOutsideLoop(variant, e) ==
    IF variant = "anthropic"
    THEN IF "TimeoutError" \in IsA(e) THEN "timeout_error"
         ELSE IF "ClientResponseError" \in IsA(e) THEN "api_error"
         ELSE IF "ClientError" \in IsA(e) THEN "network_error"
         ELSE "unknown_error"
    ELSE IF "ClientResponseError" \in IsA(e) THEN "http_error"
         ELSE IF {"TimeoutError", "ServerTimeoutError"} \cap IsA(e) # {}
              THEN "timeout_error"
         ELSE "api_error"

\* C30, amended: a read of the upstream body that fails with a payload error
\* or a timeout ends the stream with a frame of kind stream_interrupted,
\* however many chunks were relayed before; a read that fails with any other
\* exception ends it with the frame of the clauses around the connection
\* (network_error or unknown_error in the Anthropic variant, api_error in the
\* OpenRouter variant), also after chunks were relayed; stream_interrupted is
\* never emitted for a failure of the initial POST; a frame of a pre-stream
\* kind follows relayed bytes only for such an other exception.
InterruptedIffPayloadOrTimeout ==
    EndedWithErrorFrame =>
        LET kind == FrameKind(Last(call.out))
            inLoop == call.failedAfter >= 0
            transport == {"ClientPayloadError", "TimeoutError"} \cap IsA(call.caught) # {}
        IN  /\ inLoop /\ transport => kind = "stream_interrupted"
            /\ inLoop /\ ~transport => kind = KindOutsideLoop(call.variant, call.caught)
            /\ kind = "stream_interrupted" => inLoop /\ transport
            /\ inLoop => Cardinality(BytesYielded) = call.failedAfter
            /\ ~inLoop => BytesYielded = {}
            /\ kind \in PreStreamKinds /\ BytesYielded # {} => inLoop /\ ~transport

\* a connection error of a read after one relayed chunk: the Anthropic stream
\* ends with a network_error frame
InterruptedWitness ==
    /\ EndedWithErrorFrame
    /\ call.variant = "anthropic"
    /\ call.failedAfter = 1
    /\ call.caught = "ClientConnectorError"
    /\ call.out[1].t = "bytes"
    /\ FrameKind(Last(call.out)) = "network_error"

\* a block without its cache_control field
SansDirective(b) ==
    IF b.t = "dict"
    THEN [b EXCEPT !.d = [k \in (DOMAIN b.d) \ {"cache_control"} |-> b.d[k]]]
    ELSE b

\* the last message of the harness input has a non-empty block list
LastHasBlocks ==
    /\ pin.messages # << >>
    /\ Has(Last(pin.messages).d, "content")
    /\ Last(pin.messages).d["content"].t = "list"
    /\ Last(pin.messages).d["content"].items # << >>

\* C31: when the last message's content is a non-empty block list, the
\* directive is attached to its last block if that block is a structured
\* block; otherwise a new text block carrying the directive is appended, all
\* existing blocks stay in place and in order, and the new block is the last.
NormTagsLastBlock ==
    pstage = "out" /\ LastHasBlocks =>
        LET inb == Last(pin.messages).d["content"].items
            outc == Last(pout).d["content"]
            n == Len(inb)
        IN  /\ outc.t = "list"
            /\ \A i \in 1..(n - 1) : outc.items[i] = SansDirective(inb[i])
            /\ IF inb[n].t = "dict"
               THEN /\ Len(outc.items) = n
                    /\ outc.items[n].t = "dict"
                    /\ Has(outc.items[n].d, "cache_control")
                    /\ outc.items[n].d["cache_control"] = HarnessDirective
                    /\ SansDirective(outc.items[n]) = SansDirective(inb[n])
               ELSE /\ Len(outc.items) = n + 1
                    /\ outc.items[n] = inb[n]
                    /\ outc.items[n + 1].t = "dict"
                    /\ outc.items[n + 1].d["type"] = "text"
                    /\ Has(outc.items[n + 1].d, "cache_control")
                    /\ outc.items[n + 1].d["cache_control"] = HarnessDirective

\* a list of a structured block followed by a bare string got a third block
NormTagsLastBlockWitness ==
    /\ pstage = "out" /\ LastHasBlocks
    /\ Len(Last(pin.messages).d["content"].items) = 2
    /\ Last(pin.messages).d["content"].items[1].t = "dict"
    /\ Last(pin.messages).d["content"].items[2].t = "str"
    /\ Len(Last(pout).d["content"].items) = 3
    /\ Last(pout).d["content"].items[3].d["cache_control"] = HarnessDirective

\* the cache directive at a position of DirectivePositions
DirectiveAt(messages, p) ==
    IF p[2] = 0
    THEN messages[p[1]].d["cache_control"]
    ELSE messages[p[1]].d["content"].items[p[2]].d["cache_control"]

\* C32: every directive in the output of normalization is the policy's,
\* whatever the caller supplied: {type: ephemeral, ttl: T} in the TTL-aware
\* variant, where T is the configured TTL, which after startup is "5m" or
\* "1h" (any other configured value, and none, gives "1h"); {type: ephemeral}
\* without ttl in the flag-only variant.
NormDirectiveIsPolicy ==
    pstage = "normalized" /\ pout.norm.t = "return" =>
        LET out == pout.norm.v
            T == IF pin.env.t = "str" /\ pin.env.s \in {"5m", "1h"}
                 THEN pin.env.s ELSE "1h"
        IN  /\ pin.policy[1] = "anthropic" => pin.policy[2] = T
            /\ \A p \in DirectivePositions(out) :
                  DirectiveAt(out, p) =
                      IF pin.policy[1] = "anthropic"
                      THEN [type |-> "ephemeral", ttl |-> T]
                      ELSE [type |-> "ephemeral"]

\* CACHE_CONTROL_TTL=30m and a caller directive with ttl 5m on the last
\* block: the block leaves with ttl 1h
NormDirectiveIsPolicyWitness ==
    /\ pstage = "normalized" /\ pout.norm.t = "return"
    /\ pin.policy[1] = "anthropic"
    /\ pin.env = [t |-> "str", s |-> "30m"]
    /\ <<1, 1>> \in DirectivePositions(pin.req["messages"].items)
    /\ DirectiveAt(pin.req["messages"].items, <<1, 1>>) = CallerDirective
    /\ Len(pout.norm.v) = 1
    /\ DirectiveAt(pout.norm.v, <<1, 1>>) = [type |-> "ephemeral", ttl |-> "1h"]

\* C33: on the Anthropic route the body sent upstream never contains top_p:
\* the field is removed before validation and forwarding, for streaming and
\* unary requests alike, and every other field of the request apart from
\* the messages is forwarded unchanged.
AnthropicNeverForwardsTopP ==
    call.variant = "anthropic" =>
        /\ call.pc \in {"unary", "respond", "gen"} => ~Has(call.req, "top_p")
        /\ \A i \in 1..Len(call.sent) :
              LET body == call.sent[i].body
              IN  /\ ~Has(body, "top_p")
                  /\ DOMAIN body = (DOMAIN call.raw) \ {"top_p"}
                  /\ \A k \in (DOMAIN body) \ {"messages"} : body[k] = call.raw[k]

\* a streaming request with top_p, model and stream has been sent upstream
AnthropicNeverForwardsTopPWitness ==
    /\ call.variant = "anthropic"
    /\ call.isStream
    /\ Has(call.raw, "top_p")
    /\ Len(call.sent) = 1
    /\ call.sent[1].body["model"] = "m"
    /\ call.sent[1].body["stream"] = TRUE
    /\ ~Has(call.sent[1].body, "top_p")

\* the Anthropic unary route has answered with a document that has an
\* error member
AnthropicErrorAnswer ==
    /\ call.pc = "done"
    /\ call.variant = "anthropic"
    /\ call.handler = "unary"
    /\ call.ret.t = "return"
    /\ call.body.t = "json"
    /\ Has(call.body.v, "error")

HandlerLeavesRequestUntouched ==
    pstage = "handled" =>
        /\ \A a \in DOMAIN pout.before : pout.after[a] = pout.before[a]
        /\ ValueOfRequest(pout.after, ReqIn) =
              [model |-> "m",
               messages |-> [t |-> "list", items |-> pin.messages],
               thinking |-> [type |-> "enabled", budget_tokens |-> 1024]]
        /\ pout.again = pout.forwarded
        /\ pout.result.t = "forward" =>
              /\ pout.result.a # ReqIn
              /\ pout.forwarded.v["messages"].items =
                    Normalize(pin.policy[1], pin.policy[2], pin.messages)
              /\ Has(pout.forwarded.v, "reasoning")
                    <=> (pin.policy[1] = "openrouter" /\ pout.kind = "stream")

\* an OpenRouter streaming call on a request whose message carries a caller
\* directive: the copy has the reasoning field and one directive, the
\* caller's request has neither change
HandlerLeavesRequestUntouchedWitness ==
    /\ pstage = "handled"
    /\ pin.policy[1] = "openrouter"
    /\ pout.kind = "stream"
    /\ pout.result.t = "forward"
    /\ Len(pin.messages) = 2
    /\ <<1, 1>> \in DirectivePositions(ValueOfList(pout.after, InRoot))
    /\ pout.forwarded.v["reasoning"] = [enabled |-> TRUE, max_tokens |-> 1024]
    /\ DirectivePositions(pout.forwarded.v["messages"].items) = {<<2, 1>>}

(***************************************************************************)
(* The connection of a call: `async with session.post(...) as response`    *)
(* in _forward_to_anthropic / _forward_to_api and in the two streaming     *)
(* forwarders.  A call is at "post" while session.post waits for a         *)
(* connection, at "status" inside the block before raise_for_status, at    *)
(* "json" in response.json(), at "read" in response.content.read, at       *)
(* "yield" suspended at `yield chunk`, at "frame" suspended at the         *)
(* `yield error_chunk` of the clause around the loop.  Leaving the block,  *)
(* by return, by an exception or by the GeneratorExit / CancelledError a   *)
(* consumer that stops pulling raises at the suspension, runs __aexit__.   *)
(***************************************************************************)
ConnIdle ==
    [pc |-> "idle", kind |-> "none", conn |-> FALSE, checkouts |-> 0,
     releases |-> 0, nreads |-> 0, abandoned |-> FALSE]

InitConn ==
    /\ session = [v \in Variants |-> "none"]
    /\ call = [pc |-> "off"]
    /\ pstage = "off"
    /\ pin = << >>
    /\ pout = << >>
    /\ calls = [c \in 1..NCalls |-> ConnIdle]
    /\ clients = [v \in Variants |-> << >>]
    /\ closing = [v \in Variants |-> 0]

ConnFrame == <<session, call, pstage, pin, pout, clients, closing>>

\* mutant: the block is left without __aexit__, the connection stays out
ExitWithLeaks(r, abandoned) ==
    [r EXCEPT !.pc = "done", !.abandoned = abandoned]

\* __aexit__ of the request context manager: response.release()
ExitWith(r, abandoned) ==
    [r EXCEPT !.pc = "done", !.conn = FALSE, !.releases = @ + 1,
              !.abandoned = abandoned]

\* the forwarder calls session.post
ConnEnter(c, kind) ==
    /\ calls[c].pc = "idle"
    /\ calls' = [calls EXCEPT ![c] = [ConnIdle EXCEPT !.pc = "post", !.kind = kind]]
    /\ UNCHANGED ConnFrame

\* session.post raises before a connection was handed out (connect error,
\* connect timeout, closed session): the except clauses make the result
ConnPostFails(c) ==
    /\ calls[c].pc = "post"
    /\ calls' = [calls EXCEPT ![c].pc = "done"]
    /\ UNCHANGED ConnFrame

\* the connector hands the call a connection; the block is entered when the
\* response headers arrive
ConnCheckout(c) ==
    /\ calls[c].pc = "post"
    /\ calls' = [calls EXCEPT ![c] = [@ EXCEPT !.pc = "status", !.conn = TRUE,
                                               !.checkouts = @ + 1]]
    /\ UNCHANGED ConnFrame

\* the exchange fails with the connection out (timeout, reset), or
\* raise_for_status raises: the block is left by the exception
ConnStatusFails(c) ==
    /\ calls[c].pc = "status"
    /\ calls' = [calls EXCEPT ![c] = ExitWith(@, FALSE)]
    /\ UNCHANGED ConnFrame

\* raise_for_status returns
ConnStatusOk(c) ==
    /\ calls[c].pc = "status"
    /\ calls' = [calls EXCEPT ![c].pc = IF calls[c].kind = "unary" THEN "json" ELSE "read"]
    /\ UNCHANGED ConnFrame

\* response.json() returns the document, which is returned from inside the
\* block, or raises
ConnJsonEnds(c) ==
    /\ calls[c].pc = "json"
    /\ calls' = [calls EXCEPT ![c] = ExitWith(@, FALSE)]
    /\ UNCHANGED ConnFrame

\* response.content.read(8192) returns a block: yield chunk
ConnReadChunk(c) ==
    /\ calls[c].pc = "read"
    /\ calls[c].nreads < MaxChunks
    /\ calls' = [calls EXCEPT ![c] = [@ EXCEPT !.pc = "yield", !.nreads = @ + 1]]
    /\ UNCHANGED ConnFrame

\* the consumer asks for the next item
ConnResume(c) ==
    /\ calls[c].pc = "yield"
    /\ calls' = [calls EXCEPT ![c].pc = "read"]
    /\ UNCHANGED ConnFrame

\* read returns b'' (break, end of the block) or raises an exception the
\* clause around the loop does not catch
ConnReadEnds(c) ==
    /\ calls[c].pc = "read"
    /\ calls' = [calls EXCEPT ![c] = ExitWith([@ EXCEPT !.nreads = @ + 1], FALSE)]
    /\ UNCHANGED ConnFrame

\* read raises ClientPayloadError or TimeoutError: yield error_chunk, inside
\* the block
ConnReadInterrupted(c) ==
    /\ calls[c].pc = "read"
    /\ calls' = [calls EXCEPT ![c] = [@ EXCEPT !.pc = "frame", !.nreads = @ + 1]]
    /\ UNCHANGED ConnFrame

\* the consumer took the frame and pulls again: return
ConnFrameTaken(c) ==
    /\ calls[c].pc = "frame"
    /\ calls' = [calls EXCEPT ![c] = ExitWith(@, FALSE)]
    /\ UNCHANGED ConnFrame

\* the consumer stops pulling: the generator is closed (GeneratorExit at the
\* yield) or its task is cancelled (CancelledError at the read); neither is
\* caught by the clauses, both leave the block
ConnAbandon(c) ==
    /\ calls[c].pc \in {"read", "yield", "frame"}
    /\ calls' = [calls EXCEPT ![c] = ExitWith(@, TRUE)]
    /\ UNCHANGED ConnFrame

\* the call is over
ConnComplete(c) ==
    /\ calls[c].pc = "done"
    /\ calls' = [calls EXCEPT ![c] = ConnIdle]
    /\ UNCHANGED ConnFrame

NextConn ==
    \E c \in 1..NCalls :
        \/ \E kind \in {"unary", "stream"} : ConnEnter(c, kind)
        \/ ConnPostFails(c)
        \/ ConnCheckout(c)
        \/ ConnStatusFails(c)
        \/ ConnStatusOk(c)
        \/ ConnJsonEnds(c)
        \/ ConnReadChunk(c)
        \/ ConnResume(c)
        \/ ConnReadEnds(c)
        \/ ConnReadInterrupted(c)
        \/ ConnFrameTaken(c)
        \/ ConnAbandon(c)
        \/ ConnComplete(c)

SpecConn == InitConn /\ [][NextConn]_vars

\* the calls that are between entry and their end
ConnInFlight == {c \in 1..NCalls : calls[c].pc \notin {"idle", "done"}}

ConnCheckedOut == {c \in 1..NCalls : calls[c].conn}

\* C36: every call that checked out a connection releases it exactly once on
\* every exit path, the consumer abandoning the stream included, and reads
\* nothing from the upstream after abandonment; whenever no call is in
\* flight no connection is checked out.
ConnReleasedOnce ==
    /\ [](/\ \A c \in 1..NCalls :
               /\ calls[c].releases <= calls[c].checkouts
               /\ calls[c].checkouts <= 1
               /\ calls[c].conn <=> calls[c].checkouts = calls[c].releases + 1
               /\ calls[c].pc = "done" => calls[c].releases = calls[c].checkouts
          /\ ConnCheckedOut \subseteq ConnInFlight
          /\ ConnInFlight = {} => ConnCheckedOut = {})
    /\ [][\A c \in 1..NCalls :
            calls[c].abandoned /\ calls'[c].abandoned =>
                calls'[c].nreads = calls[c].nreads]_vars

\* a stream was abandoned after a chunk; its connection is back and no other
\* call is in flight
ConnReleasedOnceWitness ==
    /\ calls[1].pc = "done"
    /\ calls[1].kind = "stream"
    /\ calls[1].abandoned
    /\ calls[1].nreads = 1
    /\ calls[1].checkouts = 1 /\ calls[1].releases = 1
    /\ ConnInFlight = {}

\* C37: a request to the chat/messages route whose Content-Type is not
\* application/json is rejected with HTTP 400 and never reaches validation,
\* normalization or the upstream.
NonJsonContentTypeGets400 ==
    call.pc = "done" /\ ~call.jsonType =>
        /\ call.status = 400
        /\ call.handler = "none"
        /\ call.sent = << >>

\* C38: in the OpenRouter variant every valid streaming request is forwarded
\* with a reasoning field derived from the optional thinking directive, for
\* every thinking value a caller may send (enabled is true exactly when
\* thinking.type is "enabled", max_tokens is thinking.budget_tokens, an
\* absent thinking gives {enabled: false, max_tokens: 3276}); the unary path
\* forwards the request without a reasoning field.
ReasoningDerivedForEveryThinking ==
    (/\ call.pc = "done" /\ call.variant = "openrouter"
     /\ call.handler \in {"stream", "unary"}
     /\ ValidateRequest(call.req)) =>
        /\ Len(call.sent) = 1
        /\ IF call.handler = "unary"
           THEN ~Has(call.sent[1].body, "reasoning")
           ELSE /\ Has(call.sent[1].body, "reasoning")
                /\ call.sent[1].body["reasoning"] =
                      IF Has(call.req, "thinking")
                      THEN [enabled |-> call.req["thinking"]["type"] = "enabled",
                            max_tokens |-> call.req["thinking"]["budget_tokens"]]
                      ELSE [enabled |-> FALSE, max_tokens |-> 3276]

(***************************************************************************)
(* GET /v1/models: models_endpoint, handle_get_request /                   *)
(* handle_models_request.  The handlers do not call raise_for_status: an   *)
(* upstream answer of any status is read as a document.                    *)
(***************************************************************************)
ModelsDoc == [data |-> [t |-> "list", items |-> <<"model-1", "model-2">>]]

\* answers of the upstream: status, whether Content-Type is JSON, the body
UpAnswers ==
    { [status |-> 200, json |-> TRUE, body |-> ModelsDoc],
      [status |-> 200, json |-> TRUE,
       body |-> [error |-> [type |-> "overloaded_error", message |-> <<"Overloaded">>]]],
      [status |-> 401, json |-> TRUE,
       body |-> [type |-> "error",
                 error |-> [type |-> "authentication_error", message |-> <<"invalid x-api-key">>]]],
      [status |-> 200, json |-> FALSE, body |-> [t |-> "str", s |-> "ok"]],
      [status |-> 404, json |-> TRUE, body |-> [message |-> <<"Not found">>]],
      [status |-> 502, json |-> FALSE, body |-> [t |-> "str", s |-> "<html>Bad Gateway</html>"]] }

GetOutcomes ==
    { [t |-> "resp", r |-> r] : r \in UpAnswers }
    \cup { [t |-> "exc", x |-> x] :
             x \in { Exc("TimeoutError"), Exc("ClientConnectorError"),
                     Exc("RuntimeError"), Exc("JSONDecodeError") } }

\* the try statement of handle_get_request / handle_models_request
ForwardGet(variant, o) ==
    IF o.t = "resp"
    THEN IF o.r.json THEN Return(o.r.body) ELSE Return([data |-> o.r.body])
    ELSE IF variant = "anthropic"
    THEN UnaryHandlerAnthropic(o.x)
    ELSE Return(Envelope("api_error", <<"Models request failed: ", o.x.e>>))

\* the status models_endpoint answers with for a returned document
GetStatus(variant, v) ==
    IF Has(v, "error")
    THEN IF variant = "anthropic"
         THEN LET kind == Get(v["error"], "type", "unknown_error")
              IN  CASE kind = "api_error" -> 400
                    [] kind = "network_error" -> 503
                    [] OTHER -> 500
         ELSE 500
    ELSE 200

NoGet ==
    [pc |-> "idle", variant |-> "anthropic", hdrs |-> EmptyDict, sent |-> << >>,
     outcome |-> [t |-> "none"], status |-> 0, body |-> [t |-> "none"]]

InitGet ==
    /\ session = [v \in Variants |-> "none"]
    /\ call = NoGet
    /\ pstage = "off"
    /\ pin = << >>
    /\ pout = << >>
    /\ NoPool

\* a request reaches models_endpoint
GetReceive(variant, hdrs) ==
    /\ call.pc = "idle"
    /\ call' = [NoGet EXCEPT !.pc = "route", !.variant = variant, !.hdrs = hdrs]
    /\ UNCHANGED <<session, pstage, pin, pout, poolVars>>

\* the handler up to session.get: prepare headers, acquire the session
GetBegin ==
    /\ call.pc = "route"
    /\ call' = [call EXCEPT !.pc = "getting",
                  !.sent = Append(@, [headers |-> PrepareHeaders(call.variant,
                                                      ServerKey, call.hdrs)])]
    /\ session' = GetSession(session, call.variant)
    /\ UNCHANGED <<pstage, pin, pout, poolVars>>

\* the exchange ends with outcome o; the route answers
GetOutcome(o) ==
    /\ call.pc = "getting"
    /\ LET r == ForwardGet(call.variant, o)
       IN  call' = IF r.t = "raise"
                   THEN [call EXCEPT !.pc = "done", !.outcome = o, !.status = 500,
                            !.body = Detail(500, "Internal server error").body]
                   ELSE [call EXCEPT !.pc = "done", !.outcome = o,
                            !.status = GetStatus(call.variant, r.v),
                            !.body = [t |-> "json", v |-> r.v]]
    /\ UNCHANGED <<session, pstage, pin, pout, poolVars>>

GetComplete ==
    /\ call.pc = "done"
    /\ call' = NoGet
    /\ UNCHANGED <<session, pstage, pin, pout, poolVars>>

NextGet ==
    \/ \E v \in Variants, hdrs \in InCallHeaders : GetReceive(v, hdrs)
    \/ GetBegin
    \/ \E o \in GetOutcomes : GetOutcome(o)
    \/ GetComplete

SpecGet == InitGet /\ [][NextGet]_vars

\* C39: on the models GET path a successful upstream answer is returned as
\* HTTP 200 with the upstream JSON (a document with a data list), and an
\* upstream non-2xx answer or a transport failure is never presented to the
\* caller as HTTP 200.
ModelsFailureNever200 ==
    call.pc = "done" =>
        /\ (call.outcome.t = "resp" /\ call.outcome.r.body = ModelsDoc) =>
              /\ call.status = 200
              /\ call.body = [t |-> "json", v |-> ModelsDoc]
        /\ (call.outcome.t = "exc"
            \/ (call.outcome.t = "resp" /\ call.outcome.r.status \notin 200..299)) =>
              call.status # 200

\* every message of the harness input has the fields validation asks for
InputValidated ==
    \A i \in 1..Len(pin.messages) :
        {"role", "content"} \subseteq DOMAIN pin.messages[i].d

\* the blocks of cout are the blocks of cin at the same positions, without
\* their directives; when last, a text block carrying the directive may follow
SameBlocks(cin, cout, last) ==
    /\ cout.t = "list"
    /\ Len(cout.items) >= Len(cin.items)
    /\ \A j \in 1..Len(cin.items) :
          SansDirective(cout.items[j]) = SansDirective(cin.items[j])
    /\ IF last /\ cin.items # << >> /\ Last(cin.items).t # "dict"
       THEN /\ Len(cout.items) = Len(cin.items) + 1
            /\ SansDirective(Last(cout.items)).d["type"] = "text"
       ELSE Len(cout.items) = Len(cin.items)

\* C40 as stated: normalization preserves everything except cache
\* directives: same number of messages in the same order, each with the same
\* role and non-cache fields, every block at its position with all its fields
\* other than cache_control; the only additions are the policy directive and
\* the wrapping or appended text block on the last message (a null content
\* of the last message holds nothing that could be lost).
NormPreservesAllButDirectives ==
    pstage = "out" /\ InputValidated =>
        /\ Len(pout) = Len(pin.messages)
        /\ \A i \in 1..Len(pout) :
              LET min == pin.messages[i].d
                  mout == pout[i].d
                  last == i = Len(pout)
              IN  /\ DOMAIN mout = (DOMAIN min) \ {"cache_control"}
                  /\ \A k \in (DOMAIN mout) \ {"content"} : mout[k] = min[k]
                  /\ CASE min["content"].t = "list" ->
                            SameBlocks(min["content"], mout["content"], last)
                       [] min["content"].t = "str" /\ last ->
                            mout["content"] =
                               [t |-> "list",
                                items |-> << ExpectedTextBlock(min["content"].s) >>]
                       [] min["content"].t = "null" /\ last ->
                            mout["content"] =
                               [t |-> "list", items |-> << ExpectedTextBlock("") >>]
                       [] OTHER -> mout["content"] = min["content"]

\* C40, amended: as stated, except that a content of the last message that
\* is neither a block list nor a string is replaced, whatever it held, by one
\* empty text block carrying the directive, and that a message without a
\* content field leaves with an empty block list as content.
NormFrame ==
    pstage = "out" =>
        /\ Len(pout) = Len(pin.messages)
        /\ \A i \in 1..Len(pout) :
              LET min == pin.messages[i].d
                  mout == pout[i].d
                  last == i = Len(pout)
                  cin == IF "content" \in DOMAIN min THEN min["content"]
                         ELSE [t |-> "list", items |-> << >>]
              IN  /\ DOMAIN mout = ((DOMAIN min) \ {"cache_control"}) \cup {"content"}
                  /\ \A k \in (DOMAIN mout) \ {"content"} : mout[k] = min[k]
                  /\ CASE cin.t = "list" -> SameBlocks(cin, mout["content"], last)
                       [] cin.t = "str" /\ last ->
                            mout["content"] =
                               [t |-> "list", items |-> << ExpectedTextBlock(cin.s) >>]
                       [] cin.t # "str" /\ last ->
                            mout["content"] =
                               [t |-> "list", items |-> << ExpectedTextBlock("") >>]
                       [] OTHER -> mout["content"] = cin

\* two messages with message-level directives, the first with a number as
\* content, the last with a number as content: the first keeps it, the last
\* leaves with one empty text block
NormFrameWitness ==
    /\ pstage = "out"
    /\ Len(pin.messages) = 2
    /\ InputValidated
    /\ \A i \in 1..2 : /\ Has(pin.messages[i].d, "cache_control")
                       /\ pin.messages[i].d["content"] = [t |-> "num", n |-> 5]
    /\ pout[1].d = [role |-> "user", content |-> [t |-> "num", n |-> 5]]
    /\ pout[2].d["content"] = [t |-> "list", items |-> << ExpectedTextBlock("") >>]

====
